---- MODULE Spec2Model ----
(***************************************************************************)
(* Model of crewai-a2a-settlement: the escrow client (client.py: retry     *)
(* helper, HTTP status translation, the client operations and the session  *)
(* ledger) and the negotiation transcript subsystem (transcript.py).       *)
(*                                                                         *)
(* Three specifications share the variables:                               *)
(*   Spec            the client: one call at a time, one HTTP attempt per  *)
(*                   step of the retry loop;                               *)
(*   SpecStatus      raise_for_status applied to every status code;        *)
(*   SpecTranscript  build_transcript step by step, tampering, verify.     *)
(***************************************************************************)
EXTENDS Integers, Sequences, FiniteSets, TLC

VARIABLES
    \* ---- client.py ----
    pc,                \* "idle" | "running" | "done": position of the caller
    call,              \* the operation in progress and its arguments
    attempt,           \* _with_retries: loop variable `attempt`
    last_exc,          \* _with_retries: `last_exc` (<<>> is None)
    sleeps,            \* arguments of the time.sleep calls of this call, in order
    attemptLog,        \* what fn() did on each attempt of this call, in order
    helperOut,         \* how _with_retries ended (returned value / raised exc)
    opOut,             \* what the client operation surfaced to its caller
    session_receipts,  \* A2ASettlementClient._session_receipts
    session_results,   \* A2ASettlementClient._session_results
    nCalls,            \* calls started so far (bounded by MaxCalls)
    \* ---- _raise_for_status as a pure function ----
    sIn, sOut,
    \* ---- transcript.py ----
    tpc,               \* position inside build_transcript / after it
    tIn,               \* arguments of build_transcript
    tLoc,              \* locals of build_transcript
    tOut,              \* what build_transcript surfaced
    transcript,        \* the NegotiationTranscript held by the caller
    tampered,          \* which stored fields were overwritten after construction
    vOut,              \* what verify_transcript surfaced
    \* ---- several threads on one client ----
    threads,           \* per thread: its position, call and loop variables
    \* ---- get_session_receipts ----
    summary,           \* the SessionSummary returned (<<>> before the call)
    \* ---- the exchange's view of POST /v1/escrow ----
    posted,            \* the escrow requests received: task id, key passed, key sent
    \* ---- the singleton: initialize / get_instance / _clear_instance ----
    instance,          \* cls._instance: 0 for None, else the client's index in clients
    clients,           \* the clients constructed so far, each with its _http
    lpc,               \* position inside _clear_instance ("idle" outside it)
    lifecycle,         \* the lifecycle calls completed so far, with their outcomes
    \* ---- two canonicalizations side by side ----
    canonIn,           \* the inputs of the two invocations
    canonOut,          \* per invocation: <<>>, or <<its text and digest>>
    \* ---- the caller of get_session_receipts and what it was handed ----
    held,              \* the summaries handed out; collections are references
    lists,             \* the list objects created for them, by reference
    mutated,           \* the references whose list the caller has changed
    \* ---- the exchange behind the transport ----
    exchange,          \* the escrows the exchange holds: id, key, status
    \* ---- a thread inside get_session_receipts ----
    reader             \* its position and the locals it has computed so far

clientVars == <<pc, call, attempt, last_exc, sleeps, attemptLog, helperOut,
                opOut, session_receipts, session_results, nCalls>>
\* the client's variables but the session ledger
callVars == <<pc, call, attempt, last_exc, sleeps, attemptLog, helperOut,
              opOut, nCalls>>
statusVars == <<sIn, sOut>>
transcriptVars == <<tpc, tIn, tLoc, tOut, transcript, tampered, vOut>>
threadVars == <<threads>>
summaryVars == <<summary>>
postedVars == <<posted>>
singletonVars == <<instance, clients, lpc, lifecycle>>
canonVars == <<canonIn, canonOut>>
sessionVars == <<held, lists, mutated, exchange, reader>>
otherVars == <<threadVars, summaryVars, postedVars, singletonVars, canonVars,
               sessionVars>>
vars == <<clientVars, statusVars, transcriptVars, otherVars>>

(***************************************************************************)
(* Bounds of the model.                                                    *)
(***************************************************************************)
MaxRetries == 3      \* largest `retries` passed to _with_retries directly
MaxBackoff == 2      \* largest `backoff` passed to _with_retries directly
MaxCalls == 2        \* client calls per behaviour
MaxStatus == 620     \* HTTP status codes 100..MaxStatus
MaxEntries == 2      \* entries per negotiation
MaxThreads == 2      \* threads calling the client concurrently
MaxLedger == 3       \* receipts, and results, of a session summarized
MaxOps == 5          \* lifecycle calls (initialize, get_instance, ...) per behaviour

(***************************************************************************)
(* Program constants.                                                      *)
(***************************************************************************)
DefaultRetries == 3  \* def _with_retries(fn, *, retries: int = 3, ...)
DefaultBackoff == 1  \* def _with_retries(fn, *, ..., backoff: float = 1.0, ...)

(***************************************************************************)
(* Exceptions.  An exception value records its class, the HTTP status and  *)
(* operation it was built from, the attempt during which it was raised and *)
(* its __cause__ (<<>> is no cause, <<e>> is cause e).                     *)
(***************************************************************************)
NoExc == <<>>

Exc(type, status, operation, att) ==
    [type |-> type, status |-> status, operation |-> operation,
     attempt |-> att, cause |-> <<>>]

\* class A2ASettlementError and its five subclasses
SettlementErrorClasses ==
    {"A2ASettlementError", "A2AAuthError", "A2AEscrowError", "A2AReleaseError",
     "A2ARegistrationError", "A2ANetworkError"}

\* except (httpx.TimeoutException, httpx.NetworkError, A2ANetworkError)
RetriableClasses == {"TimeoutException", "NetworkError", "A2ANetworkError"}

(***************************************************************************)
(* _raise_for_status(resp, operation, validation_error_class): <<>> when   *)
(* it returns, <<e>> when it raises e.  vclass "None" is the default.      *)
(***************************************************************************)
\* the 5xx range taken to include 600
raise_for_status_5xx_inclusive(status, operation, vclass, att) ==
    IF status >= 200 /\ status <= 299 THEN NoExc
    ELSE LET c422 == IF vclass # "None" THEN vclass ELSE "A2AEscrowError" IN
         IF status = 401 THEN <<Exc("A2AAuthError", status, operation, att)>>
         ELSE IF status = 402 THEN <<Exc("A2AEscrowError", status, operation, att)>>
         ELSE IF status = 404 THEN <<Exc("A2ASettlementError", status, operation, att)>>
         ELSE IF status = 409 THEN NoExc
         ELSE IF status = 422 THEN <<Exc(c422, status, operation, att)>>
         ELSE IF 500 <= status /\ status <= 600
              THEN <<Exc("A2ANetworkError", status, operation, att)>>
         ELSE <<Exc("A2ASettlementError", status, operation, att)>>

\* 422 is passed over in silence, as 409 is
raise_for_status_422_silent(status, operation, vclass, att) ==
    IF status >= 200 /\ status <= 299 THEN NoExc
    ELSE IF status = 401 THEN <<Exc("A2AAuthError", status, operation, att)>>
    ELSE IF status = 402 THEN <<Exc("A2AEscrowError", status, operation, att)>>
    ELSE IF status = 404 THEN <<Exc("A2ASettlementError", status, operation, att)>>
    ELSE IF status = 409 \/ status = 422 THEN NoExc
    ELSE IF 500 <= status /\ status < 600
         THEN <<Exc("A2ANetworkError", status, operation, att)>>
    ELSE <<Exc("A2ASettlementError", status, operation, att)>>

raise_for_status(status, operation, vclass, att) ==
    \* if resp.is_success: return
    IF status >= 200 /\ status <= 299 THEN NoExc
    ELSE LET c422 == IF vclass # "None" THEN vclass ELSE "A2AEscrowError" IN
         IF status = 401 THEN <<Exc("A2AAuthError", status, operation, att)>>
         ELSE IF status = 402 THEN <<Exc("A2AEscrowError", status, operation, att)>>
         ELSE IF status = 404 THEN <<Exc("A2ASettlementError", status, operation, att)>>
         ELSE IF status = 409 THEN NoExc
         ELSE IF status = 422 THEN <<Exc(c422, status, operation, att)>>
         ELSE IF 500 <= status /\ status < 600
              THEN <<Exc("A2ANetworkError", status, operation, att)>>
         ELSE <<Exc("A2ASettlementError", status, operation, att)>>

(***************************************************************************)
(* What the transport and the exchange can do on one HTTP attempt: raise a *)
(* transport exception, or deliver a response.  A response body is "full"  *)
(* (a JSON object holding the fields the operation reads), "error" (a JSON *)
(* object {"error": ...} without them) or "nonjson" (not JSON at all).     *)
(***************************************************************************)
EscrowIds == {"esc-1", "esc-2"}
\* the escrow calls made: (task id, amount)
EscrowArgs == {<<"task-a", 10>>, <<"task-b", 20>>}
ExplicitKeys == {"key-1"}

\* httpx.TimeoutException, httpx.NetworkError, and one httpx.TransportError
\* that is neither (httpx.ProtocolError)
TransportExceptions == {"TimeoutException", "NetworkError", "ProtocolError"}

ErrorStatuses == {401, 402, 404, 418, 422, 500}
BodyStatuses == {200, 409}
Bodies == {"full", "error", "nonjson"}

Raises(type) ==
    [kind |-> "raise", type |-> type, status |-> 0, body |-> "none",
     escrow_id |-> "none"]

Response(status, body, eid) ==
    [kind |-> "response", type |-> "none", status |-> status, body |-> body,
     escrow_id |-> eid]

Returns ==
    [kind |-> "return", type |-> "none", status |-> 0, body |-> "full",
     escrow_id |-> "none"]

TransportOutcomes(c) ==
    {Raises(t) : t \in TransportExceptions}
    \cup {Response(s, "error", "none") : s \in ErrorStatuses}
    \cup {Response(s, b, "none") : s \in BodyStatuses, b \in Bodies \ {"full"}}
    \cup {Response(s, "full", e) :
            s \in BodyStatuses,
            e \in IF c.name = "escrow" THEN EscrowIds ELSE {"none"}}

\* a callable handed to _with_retries directly: returns, or raises anything
HelperExceptions ==
    {"TimeoutException", "NetworkError", "A2ANetworkError", "A2AAuthError",
     "A2AEscrowError", "A2AReleaseError", "A2ASettlementError", "ValueError"}

HelperOutcomes == {Returns} \cup {Raises(t) : t \in HelperExceptions}

Outcomes(c) == IF c.name = "helper" THEN HelperOutcomes ELSE TransportOutcomes(c)

(***************************************************************************)
(* The calls.                                                              *)
(***************************************************************************)
MkCall(name, retries, backoff, task, amount, eid, key) ==
    [name |-> name, retries |-> retries, backoff |-> backoff, task_id |-> task,
     amount |-> amount, escrow_id |-> eid, idempotency_key |-> key]

NoCall == MkCall("none", 0, 0, "none", 0, "none", "none")

ClientCall(name, task, amount, eid, key) ==
    MkCall(name, DefaultRetries, DefaultBackoff, task, amount, eid, key)

Queries == {"get_escrow_status", "get_balance", "get_account_history"}

Calls ==
    {MkCall("helper", n, b, "none", 0, "none", "none") :
        n \in 0..MaxRetries, b \in 1..MaxBackoff}
    \cup {ClientCall("register_agent", "none", 0, "none", "none")}
    \cup {ClientCall("escrow", a[1], a[2], "none", k) :
            a \in EscrowArgs, k \in ExplicitKeys \cup {"None"}}
    \cup {ClientCall(n, "none", 0, e, "none") :
            n \in {"release", "cancel"}, e \in EscrowIds}
    \cup {ClientCall(q, "none", 0, "esc-1", "none") : q \in Queries}

(***************************************************************************)
(* The closures `_call` of the client operations: the HTTP request, then   *)
(* _raise_for_status, then resp.json().                                    *)
(***************************************************************************)
NoValue == [body |-> "none", escrow_id |-> "none", attempt |-> 0]

FnOk(value) == [ok |-> TRUE, value |-> value, exc |-> NoExc]
FnRaise(e) == [ok |-> FALSE, value |-> NoValue, exc |-> <<e>>]

\* release and cancel pass validation_error_class=A2AReleaseError
ValidationClass(operation) ==
    IF operation \in {"release", "cancel"} THEN "A2AReleaseError" ELSE "None"

call_fn(operation, t, att) ==
    IF t.kind = "raise" THEN FnRaise(Exc(t.type, 0, operation, att))
    ELSE LET r == raise_for_status(t.status, operation,
                                   ValidationClass(operation), att) IN
         IF r # NoExc THEN FnRaise(r[1])
         \* resp.json() raises json.JSONDecodeError, a ValueError
         ELSE IF t.body = "nonjson" THEN FnRaise(Exc("ValueError", 0, operation, att))
         ELSE FnOk([body |-> t.body, escrow_id |-> t.escrow_id, attempt |-> att])

\* fn() of _with_retries: the operation's closure, or the caller's callable
fn(c, t, att) ==
    IF c.name = "helper"
    THEN IF t.kind = "return"
         THEN FnOk([body |-> "full", escrow_id |-> "none", attempt |-> att])
         ELSE FnRaise(Exc(t.type, 0, "helper", att))
    ELSE call_fn(c.name, t, att)

(***************************************************************************)
(* _with_retries(fn, retries, backoff, label), one iteration of its loop   *)
(* at a time.                                                              *)
(***************************************************************************)
\* while True: the loop has no last iteration
loop_range_unbounded(att, retries) == att >= 1

\* for attempt in range(1, retries + 1): is `att` an iteration of the loop?
loop_range_one_more(att, retries) == att >= 1 /\ att <= retries + 1

loop_range(att, retries) == att >= 1 /\ att <= retries

\* except (httpx.TimeoutException, httpx.NetworkError, A2ANetworkError) as exc
is_retried_everything(e) == TRUE

is_retried(e) == e.type \in RetriableClasses

\* the exponent is the attempt number itself
backoff_wait_from_two(backoff, att) == backoff * (2 ^ att)

\* wait = backoff * (2 ** (attempt - 1))
backoff_wait(backoff, att) == backoff * (2 ^ (att - 1))

\* the A2ANetworkError is raised without `from last_exc`
exhausted_without_cause(label, last) ==
    [type |-> "A2ANetworkError", status |-> 0, operation |-> label,
     attempt |-> 0, cause |-> NoExc]

\* raise A2ANetworkError(f"{label} failed after {retries} attempts: ...") from last_exc
exhausted(label, last) ==
    [type |-> "A2ANetworkError", status |-> 0, operation |-> label,
     attempt |-> 0, cause |-> last]

HelperState(status, att, last, slept, value, e) ==
    [status |-> status, attempt |-> att, last_exc |-> last, slept |-> slept,
     value |-> value, exc |-> e]

\* the loop is entered at `att` (or left, when att is past the range)
loop_enter(att, retries, last, label) ==
    IF loop_range(att, retries)
    THEN HelperState("running", att, last, <<>>, NoValue, NoExc)
    ELSE HelperState("raised", att - 1, last, <<>>, NoValue,
                     <<exhausted(label, last)>>)

\* a success is not returned: the loop goes on to the next attempt
with_retries_step_no_return(att, retries, backoff, last, label, r) ==
    IF r.ok /\ ~loop_range(att + 1, retries)
    THEN HelperState("returned", att, last, <<>>, r.value, NoExc)
    ELSE IF r.ok \/ is_retried(r.exc[1])
    THEN LET l == IF r.ok THEN last ELSE r.exc
             nxt == loop_enter(att + 1, retries, l, label) IN
         [nxt EXCEPT !.slept = <<>>]
    ELSE HelperState("raised", att, last, <<>>, NoValue, r.exc)

\* the body of the loop for attempt `att`, fn() having ended as r
with_retries_step(att, retries, backoff, last, label, r) ==
    IF r.ok
    THEN \* return fn()
         HelperState("returned", att, last, <<>>, r.value, NoExc)
    ELSE IF is_retried(r.exc[1])
    THEN LET wait == backoff_wait(backoff, att)
             slept == IF att < retries THEN <<wait>> ELSE <<>>
             nxt == loop_enter(att + 1, retries, r.exc, label) IN
         [nxt EXCEPT !.slept = slept]
    ELSE \* not caught: the exception leaves _with_retries as it is
         HelperState("raised", att, last, <<>>, NoValue, r.exc)

(***************************************************************************)
(* The client operations, from the end of _with_retries on: what they      *)
(* surface and what they append to the session ledger.                     *)
(***************************************************************************)
OpReturn(value, receipts, results) ==
    [kind |-> "returned", value |-> value, exc |-> NoExc,
     receipts |-> receipts, results |-> results]

OpRaise(e, receipts, results) ==
    [kind |-> "raised", value |-> NoValue, exc |-> <<e>>,
     receipts |-> receipts, results |-> results]

\* except (A2ANetworkError, A2ASettlementError): raise
\* except Exception as exc: raise <wrapper>(...) from exc
reraise(e, wrapper, operation) ==
    IF e.type \in SettlementErrorClasses THEN e
    ELSE [type |-> wrapper, status |-> 0, operation |-> operation,
          attempt |-> 0, cause |-> <<e>>]

EscrowReceipt(c, data) ==
    [escrow_id |-> data.escrow_id, task_id |-> c.task_id,
     payer_address |-> "0xPAYER", payee_address |-> "0xPAYEE",
     amount |-> c.amount, status |-> "escrowed"]

SettlementResult(c, status, data) ==
    [escrow_id |-> c.escrow_id, status |-> status,
     tx_hash |-> IF data.body = "full" THEN "0xTX" ELSE ""]

register_agent(c, h, receipts, results) ==
    IF h.status = "raised"
    THEN OpRaise(reraise(h.exc[1], "A2ARegistrationError", c.name), receipts, results)
    \* wallet = data["wallet_address"]
    ELSE IF h.value.body # "full"
    THEN OpRaise(Exc("KeyError", 0, c.name, 0), receipts, results)
    ELSE OpReturn(h.value, receipts, results)

\* the receipt is recorded whether or not the call succeeded
escrow_appends_on_failure(c, h, receipts, results) ==
    IF h.status = "raised"
    THEN OpRaise(reraise(h.exc[1], "A2AEscrowError", c.name),
                 Append(receipts, EscrowReceipt(c, h.value)), results)
    ELSE IF h.value.body # "full"
    THEN OpRaise(Exc("KeyError", 0, c.name, 0), receipts, results)
    ELSE OpReturn(h.value, Append(receipts, EscrowReceipt(c, h.value)), results)

escrow(c, h, receipts, results) ==
    IF h.status = "raised"
    THEN OpRaise(reraise(h.exc[1], "A2AEscrowError", c.name), receipts, results)
    \* escrow_id=data["escrow_id"]
    ELSE IF h.value.body # "full"
    THEN OpRaise(Exc("KeyError", 0, c.name, 0), receipts, results)
    ELSE OpReturn(h.value, Append(receipts, EscrowReceipt(c, h.value)), results)

\* the result is recorded whether or not the call succeeded
release_appends_on_failure(c, h, receipts, results) ==
    IF h.status = "raised"
    THEN OpRaise(reraise(h.exc[1], "A2AReleaseError", c.name), receipts,
                 Append(results, SettlementResult(c, "released", h.value)))
    ELSE OpReturn(h.value, receipts,
                  Append(results, SettlementResult(c, "released", h.value)))

release(c, h, receipts, results) ==
    IF h.status = "raised"
    THEN OpRaise(reraise(h.exc[1], "A2AReleaseError", c.name), receipts, results)
    ELSE OpReturn(h.value, receipts,
                  Append(results, SettlementResult(c, "released", h.value)))

\* the result of a successful cancel is not recorded
cancel_without_append(c, h, receipts, results) ==
    IF h.status = "raised"
    THEN OpRaise(reraise(h.exc[1], "A2AReleaseError", c.name), receipts, results)
    ELSE OpReturn(h.value, receipts, results)

cancel(c, h, receipts, results) ==
    IF h.status = "raised"
    THEN OpRaise(reraise(h.exc[1], "A2AReleaseError", c.name), receipts, results)
    ELSE OpReturn(h.value, receipts,
                  Append(results, SettlementResult(c, "cancelled", h.value)))

\* get_escrow_status, get_balance, get_account_history: no try/except
query(c, h, receipts, results) ==
    IF h.status = "raised"
    THEN OpRaise(h.exc[1], receipts, results)
    ELSE OpReturn(h.value, receipts, results)

\* _with_retries called directly
helper(c, h, receipts, results) ==
    IF h.status = "raised"
    THEN OpRaise(h.exc[1], receipts, results)
    ELSE OpReturn(h.value, receipts, results)

finish(c, h, receipts, results) ==
    CASE c.name = "register_agent" -> register_agent(c, h, receipts, results)
      [] c.name = "escrow" -> escrow(c, h, receipts, results)
      [] c.name = "release" -> release(c, h, receipts, results)
      [] c.name = "cancel" -> cancel(c, h, receipts, results)
      [] c.name \in Queries -> query(c, h, receipts, results)
      [] OTHER -> helper(c, h, receipts, results)

(***************************************************************************)
(* The client as a state machine.                                          *)
(***************************************************************************)
NoHelperOut == HelperState("none", 0, NoExc, <<>>, NoValue, NoExc)
NoOpOut == [kind |-> "none", value |-> NoValue, exc |-> NoExc]

ClientInit ==
    /\ pc = "idle"
    /\ call = NoCall
    /\ attempt = 0
    /\ last_exc = NoExc
    /\ sleeps = <<>>
    /\ attemptLog = <<>>
    /\ helperOut = NoHelperOut
    /\ opOut = NoOpOut
    /\ session_receipts = <<>>
    /\ session_results = <<>>
    /\ nCalls = 0

\* an attempt as recorded: what the transport did and how fn() ended
LogEntry(t, r) == [outcome |-> t, ok |-> r.ok, value |-> r.value, exc |-> r.exc]

\* the loop state h after one more step of the call c
Advance(c, h, log) ==
    /\ attempt' = h.attempt
    /\ last_exc' = h.last_exc
    /\ sleeps' = sleeps \o h.slept
    /\ attemptLog' = log
    /\ IF h.status = "running"
       THEN /\ pc' = "running"
            /\ helperOut' = NoHelperOut
            /\ opOut' = NoOpOut
            /\ UNCHANGED <<session_receipts, session_results>>
       ELSE LET o == finish(c, h, session_receipts, session_results) IN
            /\ pc' = "done"
            /\ helperOut' = h
            /\ opOut' = [kind |-> o.kind, value |-> o.value, exc |-> o.exc]
            /\ session_receipts' = o.receipts
            /\ session_results' = o.results

\* a caller starts an operation: _with_retries is entered
Call(c) ==
    /\ pc = "idle"
    /\ nCalls < MaxCalls
    /\ nCalls' = nCalls + 1
    /\ call' = c
    /\ sleeps = <<>>
    /\ Advance(c, loop_enter(1, c.retries, NoExc, c.name), <<>>)

\* one iteration of the loop: fn() runs and the transport answers with t
Attempt(t) ==
    /\ pc = "running"
    /\ LET r == fn(call, t, attempt) IN
       Advance(call,
               with_retries_step(attempt, call.retries, call.backoff, last_exc,
                                 call.name, r),
               Append(attemptLog, LogEntry(t, r)))
    /\ UNCHANGED <<call, nCalls>>

\* the caller takes the result; the client is ready for the next call
Return ==
    /\ pc = "done"
    /\ pc' = "idle"
    /\ call' = NoCall
    /\ attempt' = 0
    /\ last_exc' = NoExc
    /\ sleeps' = <<>>
    /\ attemptLog' = <<>>
    /\ helperOut' = NoHelperOut
    /\ opOut' = NoOpOut
    /\ UNCHANGED <<session_receipts, session_results, nCalls>>

(***************************************************************************)
(* _raise_for_status applied to one response.                              *)
(***************************************************************************)
StatusCodes == 100..MaxStatus

Operations == {"register_agent", "escrow", "release", "cancel"} \cup Queries

NoStatusIn == [status |-> 0, operation |-> "none"]
NoStatusOut == [done |-> FALSE, exc |-> NoExc]

StatusIdle == sIn = NoStatusIn /\ sOut = NoStatusOut

StatusInit ==
    /\ sIn \in [status : StatusCodes, operation : Operations]
    /\ sOut = NoStatusOut

RaiseForStatus ==
    /\ ~sOut.done
    /\ sOut' = [done |-> TRUE,
                exc |-> raise_for_status(sIn.status, sIn.operation,
                                         ValidationClass(sIn.operation), 1)]
    /\ UNCHANGED sIn

(***************************************************************************)
(* transcript.py.  A text is a sequence of characters.                     *)
(***************************************************************************)
LowerCase ==
    <<"a", "b", "c", "d", "e", "f", "g", "h", "i", "j", "k", "l", "m", "n",
          "o", "p", "q", "r", "s", "t", "u", "v", "w", "x", "y", "z">>
UpperCase ==
    <<"A", "B", "C", "D", "E", "F", "G", "H", "I", "J", "K", "L", "M", "N",
          "O", "P", "Q", "R", "S", "T", "U", "V", "W", "X", "Y", "Z">>

\* the ASCII characters used, in code point order
Ascii ==
    <<" ", "!", "\"", "$", ",", "-", ".", "/", "0", "1", "2", "3", "4",
          "5", "6", "7", "8", "9", ":", "A", "B", "C", "D", "E", "F", "G",
          "H", "I", "J", "K", "L", "M", "N", "O", "P", "Q", "R", "S", "T",
          "U", "V", "W", "X", "Y", "Z", "[", "\\", "]", "_", "a", "b", "c",
          "d", "e", "f", "g", "h", "i", "j", "k", "l", "m", "n", "o", "p",
          "q", "r", "s", "t", "u", "v", "w", "x", "y", "z", "{", "}">>

\* a character outside ASCII (U+00E9)
EAcute == "e'"

Chars == {Ascii[i] : i \in 1..Len(Ascii)} \cup {EAcute}

\* the case folding of a case-insensitive match
Fold == [c \in Chars |->
            IF \E i \in 1..26 : UpperCase[i] = c
            THEN LowerCase[CHOOSE i \in 1..26 : UpperCase[i] = c]
            ELSE c]

ToUpper == [c \in Chars |->
            IF \E i \in 1..26 : LowerCase[i] = c
            THEN UpperCase[CHOOSE i \in 1..26 : LowerCase[i] = c]
            ELSE c]

FORBIDDEN_PHRASES ==
    <<
      <<"S", "e", "t", "t", "l", "e", "m", "e", "n", "t", " ", "A", "p", "p",
            "r", "o", "v", "e", "d">>,
      <<"s", "e", "t", "t", "l", "e", "m", "e", "n", "t", " ", "a", "p", "p",
            "r", "o", "v", "e", "d">>,
      <<"S", "E", "T", "T", "L", "E", "M", "E", "N", "T", " ", "A", "P", "P",
            "R", "O", "V", "E", "D">>,
      <<"E", "x", "e", "c", "u", "t", "e", " ", "S", "e", "t", "t", "l", "e",
            "m", "e", "n", "t">>,
      <<"e", "x", "e", "c", "u", "t", "e", " ", "s", "e", "t", "t", "l", "e",
            "m", "e", "n", "t">>,
      <<"E", "X", "E", "C", "U", "T", "E", " ", "S", "E", "T", "T", "L", "E",
            "M", "E", "N", "T">>,
      <<"A", "p", "p", "r", "o", "v", "e", " ", "P", "a", "y", "m", "e", "n",
            "t">>,
      <<"a", "p", "p", "r", "o", "v", "e", " ", "p", "a", "y", "m", "e", "n",
            "t">>,
      <<"A", "P", "P", "R", "O", "V", "E", " ", "P", "A", "Y", "M", "E", "N",
            "T">>,
      <<"R", "e", "l", "e", "a", "s", "e", " ", "F", "u", "n", "d", "s">>,
      <<"r", "e", "l", "e", "a", "s", "e", " ", "f", "u", "n", "d", "s">>,
      <<"R", "E", "L", "E", "A", "S", "E", " ", "F", "U", "N", "D", "S">>
    >>

\* rank of a character in code point order (order of ord(c))
Code == [c \in Chars |->
            IF c = EAcute THEN Len(Ascii) + 1
            ELSE CHOOSE i \in 1..Len(Ascii) : Ascii[i] = c]

\* a < b for str
RECURSIVE StrLess(_, _)
StrLess(a, b) ==
    IF a = <<>> THEN b # <<>>
    ELSE IF b = <<>> THEN FALSE
    ELSE IF a[1] = b[1] THEN StrLess(Tail(a), Tail(b))
    ELSE Code[a[1]] < Code[b[1]]

\* sorted(xs) for a sequence of str (stable insertion)
RECURSIVE InsertStr(_, _)
InsertStr(x, xs) ==
    IF xs = <<>> THEN <<x>>
    ELSE IF StrLess(x, xs[1]) THEN <<x>> \o xs
    ELSE <<xs[1]>> \o InsertStr(x, Tail(xs))

RECURSIVE sorted(_)
sorted(xs) ==
    IF xs = <<>> THEN <<>>
    ELSE InsertStr(xs[Len(xs)], sorted(SubSeq(xs, 1, Len(xs) - 1)))

\* the elements of the set in descending order
RECURSIVE sorted_set_descending(_)
sorted_set_descending(s) ==
    IF s = {} THEN <<>>
    ELSE LET m == CHOOSE x \in s : \A y \in s : x = y \/ StrLess(y, x) IN
         <<m>> \o sorted_set_descending(s \ {m})

\* sorted(s) for a set of str
RECURSIVE sorted_set(_)
sorted_set(s) ==
    IF s = {} THEN <<>>
    ELSE LET m == CHOOSE x \in s : \A y \in s : x = y \/ StrLess(x, y) IN
         <<m>> \o sorted_set(s \ {m})

(***************************************************************************)
(* _FORBIDDEN_PATTERN.search(text): the alternation of the escaped phrases *)
(* under re.IGNORECASE.  <<>> is no match, <<m>> a match whose group() is  *)
(* m, the text as it was matched.                                          *)
(***************************************************************************)
\* the pattern compiled without re.IGNORECASE
MatchesAt_case_sensitive(text, i, p) ==
    /\ i + Len(p) - 1 <= Len(text)
    /\ \A j \in 1..Len(p) : text[i + j - 1] = p[j]

MatchesAt(text, i, p) ==
    /\ i + Len(p) - 1 <= Len(text)
    /\ \A j \in 1..Len(p) : Fold[text[i + j - 1]] = Fold[p[j]]

search(text) ==
    LET hits == {i \in 1..Len(text) :
                    \E k \in 1..Len(FORBIDDEN_PHRASES) :
                        MatchesAt(text, i, FORBIDDEN_PHRASES[k])} IN
    IF hits = {} THEN <<>>
    ELSE LET i == CHOOSE x \in hits : \A y \in hits : x <= y
             k == CHOOSE x \in 1..Len(FORBIDDEN_PHRASES) :
                    /\ MatchesAt(text, i, FORBIDDEN_PHRASES[x])
                    /\ \A y \in 1..(x - 1) : ~MatchesAt(text, i, FORBIDDEN_PHRASES[y])
         IN <<SubSeq(text, i, i + Len(FORBIDDEN_PHRASES[k]) - 1)>>

(***************************************************************************)
(* JSON values and json.dumps.  A dict is the sequence of its (key, value) *)
(* pairs in insertion order.                                               *)
(***************************************************************************)
JStr(s) == [t |-> "str", s |-> s, n |-> 0, items |-> <<>>]
JNum(n) == [t |-> "num", s |-> <<>>, n |-> n, items |-> <<>>]
JList(items) == [t |-> "list", s |-> <<>>, n |-> 0, items |-> items]
JDict(items) == [t |-> "dict", s |-> <<>>, n |-> 0, items |-> items]

EmptyDict == JDict(<<>>)

Digits == <<"0", "1", "2", "3", "4", "5", "6", "7", "8", "9">>

\* str(n) for an int n >= 0
RECURSIVE int_str(_)
int_str(n) ==
    IF n < 10 THEN <<Digits[n + 1]>>
    ELSE int_str(n \div 10) \o <<Digits[(n % 10) + 1]>>

\* the body of a JSON string under ensure_ascii=True
RECURSIVE escape(_)
escape(s) ==
    IF s = <<>> THEN <<>>
    ELSE (CASE s[1] = "\"" -> <<"\\", "\"">>
            [] s[1] = "\\" -> <<"\\", "\\">>
            [] s[1] = EAcute -> <<"\\", "u", "0", "0", "e", "9">>
            [] OTHER -> <<s[1]>>)
         \o escape(Tail(s))

quote(s) == <<"\"">> \o escape(s) \o <<"\"">>

\* the items of a dict sorted by key (sort_keys=True)
RECURSIVE InsertItem(_, _)
InsertItem(x, xs) ==
    IF xs = <<>> THEN <<x>>
    ELSE IF StrLess(x[1], xs[1][1]) THEN <<x>> \o xs
    ELSE <<xs[1]>> \o InsertItem(x, Tail(xs))

RECURSIVE sorted_items(_)
sorted_items(xs) ==
    IF xs = <<>> THEN <<>>
    ELSE InsertItem(xs[Len(xs)], sorted_items(SubSeq(xs, 1, Len(xs) - 1)))

RECURSIVE dumps(_, _)
RECURSIVE dumps_list(_, _)
RECURSIVE dumps_items(_, _)

\* the elements of a list, separated by ", "
dumps_list(xs, sort_keys) ==
    IF xs = <<>> THEN <<>>
    ELSE dumps(xs[1], sort_keys)
         \o (IF Len(xs) > 1 THEN <<",", " ">> ELSE <<>>)
         \o dumps_list(Tail(xs), sort_keys)

\* the items of a dict: key, ": ", value, separated by ", "
dumps_items(xs, sort_keys) ==
    IF xs = <<>> THEN <<>>
    ELSE quote(xs[1][1]) \o <<":", " ">> \o dumps(xs[1][2], sort_keys)
         \o (IF Len(xs) > 1 THEN <<",", " ">> ELSE <<>>)
         \o dumps_items(Tail(xs), sort_keys)

\* json.dumps(v, sort_keys=sort_keys, ensure_ascii=True)
dumps(v, sort_keys) ==
    CASE v.t = "str" -> quote(v.s)
      [] v.t = "num" -> int_str(v.n)
      [] v.t = "list" -> <<"[">> \o dumps_list(v.items, sort_keys) \o <<"]">>
      [] v.t = "dict" ->
            <<"{">>
            \o dumps_items(IF sort_keys THEN sorted_items(v.items) ELSE v.items,
                           sort_keys)
            \o <<"}">>

(***************************************************************************)
(* validate_no_execution_authority(entries, compromise): <<>> when it      *)
(* returns, <<e>> when it raises e.                                        *)
(***************************************************************************)
ValidationError(source, index, speaker, phrase) ==
    [type |-> "TranscriptValidationError", source |-> source, index |-> index,
     speaker |-> speaker, phrase |-> phrase]

EmptyEntriesError ==
    [type |-> "ValueError", source |-> "entries", index |-> 0,
     speaker |-> <<>>, phrase |-> <<>>]

\* the metadata of the entries is scanned as well
validate_no_execution_authority_and_metadata(entries, compromise) ==
    LET Text(e) ==
            e.message \o (IF e.metadata = <<>> THEN <<>>
                          ELSE dumps(e.metadata[1], FALSE))
        bad == {i \in 1..Len(entries) : search(Text(entries[i])) # <<>>} IN
    IF bad # {}
    THEN LET i == CHOOSE x \in bad : \A y \in bad : x <= y IN
         <<ValidationError("entry", i - 1, entries[i].speaker,
                           search(Text(entries[i]))[1])>>
    ELSE LET m == search(dumps(compromise, FALSE)) IN
         IF m # <<>>
         THEN <<ValidationError("compromise", 0, <<>>, m[1])>>
         ELSE <<>>

\* the compromise is scanned before the entries
validate_no_execution_authority_compromise_first(entries, compromise) ==
    LET bad == {i \in 1..Len(entries) : search(entries[i].message) # <<>>}
        m == search(dumps(compromise, FALSE)) IN
    IF m # <<>>
    THEN <<ValidationError("compromise", 0, <<>>, m[1])>>
    ELSE IF bad # {}
    THEN LET i == CHOOSE x \in bad : \A y \in bad : x <= y IN
         <<ValidationError("entry", i - 1, entries[i].speaker,
                           search(entries[i].message)[1])>>
    ELSE <<>>

validate_no_execution_authority(entries, compromise) ==
    \* for idx, entry in enumerate(entries): ... raise on the first match
    LET bad == {i \in 1..Len(entries) : search(entries[i].message) # <<>>} IN
    IF bad # {}
    THEN LET i == CHOOSE x \in bad : \A y \in bad : x <= y IN
         <<ValidationError("entry", i - 1, entries[i].speaker,
                           search(entries[i].message)[1])>>
    ELSE \* compromise_str = json.dumps(compromise)
         LET m == search(dumps(compromise, FALSE)) IN
         IF m # <<>>
         THEN <<ValidationError("compromise", 0, <<>>, m[1])>>
         ELSE <<>>

(***************************************************************************)
(* _build_canonical_dict, hash_transcript, verify_transcript.              *)
(***************************************************************************)
K_compromise == <<"c", "o", "m", "p", "r", "o", "m", "i", "s", "e">>
K_created_at == <<"c", "r", "e", "a", "t", "e", "d", "_", "a", "t">>
K_entries == <<"e", "n", "t", "r", "i", "e", "s">>
K_message == <<"m", "e", "s", "s", "a", "g", "e">>
K_metadata == <<"m", "e", "t", "a", "d", "a", "t", "a">>
K_participants == <<"p", "a", "r", "t", "i", "c", "i", "p", "a", "n", "t", "s">>
K_role == <<"r", "o", "l", "e">>
K_session_id == <<"s", "e", "s", "s", "i", "o", "n", "_", "i", "d">>
K_speaker == <<"s", "p", "e", "a", "k", "e", "r">>
K_timestamp == <<"t", "i", "m", "e", "s", "t", "a", "m", "p">>
K_version == <<"v", "e", "r", "s", "i", "o", "n">>
V_version == <<"1", ".", "0">>

\* "metadata": e.metadata or {}   (None and the empty dict both give {})
metadata_or_empty(e) ==
    IF e.metadata = <<>> \/ e.metadata[1].items = <<>> THEN EmptyDict
    ELSE e.metadata[1]

entry_dict(e) ==
    JDict(<< <<K_message, JStr(e.message)>>,
             <<K_metadata, metadata_or_empty(e)>>,
             <<K_role, JStr(e.role)>>,
             <<K_speaker, JStr(e.speaker)>>,
             <<K_timestamp, JStr(e.timestamp)>> >>)

build_canonical_dict(session_id, participants, entries, compromise, created_at) ==
    JDict(<< <<K_compromise, compromise>>,
             <<K_created_at, JStr(created_at)>>,
             <<K_entries, JList([i \in 1..Len(entries) |-> entry_dict(entries[i])])>>,
             <<K_participants,
               JList([i \in 1..Len(participants) |-> JStr(sorted(participants)[i])])>>,
             <<K_session_id, JStr(session_id)>>,
             <<K_version, JStr(V_version)>> >>)

(***************************************************************************)
(* Digests.  SHA-256 is modelled as an ideal hash: the digest of a text is *)
(* determined by the text, digests of different texts differ, and a digest *)
(* written down without a text (such as 64 zeros) is the digest of none.   *)
(* The empty string stands where a digest is expected but absent.          *)
(***************************************************************************)
EmptyDigest == [kind |-> "empty", of |-> <<>>]
ZeroDigest == [kind |-> "literal", of |-> <<"0">>]

\* hashlib.sha256(transcript_json.encode("utf-8")).hexdigest()
hash_transcript(text) == [kind |-> "sha256", of |-> text]

VerifyOk == [kind |-> "ok", stored |-> EmptyDigest, computed |-> EmptyDigest]
VerifyMissing == [kind |-> "IntegrityError: missing", stored |-> EmptyDigest,
                  computed |-> EmptyDigest]
VerifyMismatch(stored, computed) ==
    [kind |-> "IntegrityError: hash mismatch", stored |-> stored,
     computed |-> computed]

\* the digests are not compared
verify_transcript_no_compare(tr) ==
    IF tr.transcript_json = <<>> \/ tr.transcript_hash = EmptyDigest
    THEN VerifyMissing
    ELSE VerifyOk

\* the digests are compared before the stored fields are looked at
verify_transcript_compares_first(tr) ==
    LET computed == hash_transcript(tr.transcript_json) IN
    IF computed # tr.transcript_hash
    THEN VerifyMismatch(tr.transcript_hash, computed)
    ELSE IF tr.transcript_json = <<>> \/ tr.transcript_hash = EmptyDigest
         THEN VerifyMissing
         ELSE VerifyOk

verify_transcript(tr) ==
    \* if not transcript.transcript_json or not transcript.transcript_hash
    IF tr.transcript_json = <<>> \/ tr.transcript_hash = EmptyDigest
    THEN VerifyMissing
    ELSE LET computed == hash_transcript(tr.transcript_json) IN
         IF computed # tr.transcript_hash
         THEN VerifyMismatch(tr.transcript_hash, computed)
         ELSE VerifyOk

(***************************************************************************)
(* The negotiations handed to build_transcript: a clean negotiation of n   *)
(* entries into which one text is put at one place.  The text is a         *)
(* forbidden phrase in some letter case, bare or inside a sentence, or a   *)
(* clean text that resembles one.                                          *)
(***************************************************************************)
CaseModes == {"lower", "upper", "title", "alternate", "etanretla"}

\* base phrase b (1..4) of FORBIDDEN_PHRASES in a letter case
Cased(b, mode) ==
    LET low == FORBIDDEN_PHRASES[3 * b - 1] IN
    CASE mode = "lower" -> low
      [] mode = "upper" -> FORBIDDEN_PHRASES[3 * b]
      [] mode = "title" -> FORBIDDEN_PHRASES[3 * b - 2]
      [] mode = "alternate" ->
            [i \in 1..Len(low) |-> IF i % 2 = 0 THEN ToUpper[low[i]] ELSE low[i]]
      [] mode = "etanretla" ->
            [i \in 1..Len(low) |-> IF i % 2 = 1 THEN ToUpper[low[i]] ELSE low[i]]

InSentence(text) == <<"I", " ", "s", "a", "y", ":", " ">> \o text \o <<"!">>

CleanTexts ==
    { <<"r", "e", "l", "e", "a", "s", "e", " ", "f", "u", "n", "d">>,
      <<"a", "p", "p", "r", "o", "v", "e", "d", " ", "s", "e", "t", "t", "l", "e", "m", "e", "n", "t">> }

Injections ==
    {[text |-> Cased(b, m), forbidden |-> TRUE] : b \in 1..4, m \in CaseModes}
    \cup {[text |-> InSentence(Cased(b, m)), forbidden |-> TRUE] :
            b \in 1..4, m \in CaseModes}
    \cup {[text |-> t, forbidden |-> FALSE] : t \in CleanTexts}

Loc(field, idx) == [field |-> field, idx |-> idx]

CompromiseFields == {"compromise_key", "compromise_value", "compromise_nested"}

Locations(n) ==
    {Loc(f, 0) : f \in CompromiseFields \cup {"session_id", "participants"}}
    \cup {Loc("message", i) : i \in 1..n}
    \cup {Loc(f, 1) : f \in IF n >= 1
                            THEN {"metadata", "speaker", "role", "timestamp"}
                            ELSE {}}

S_Buyer == <<"B", "u", "y", "e", "r">>
S_Seller == <<"S", "e", "l", "l", "e", "r">>
S_buyer == <<"b", "u", "y", "e", "r">>
S_seller == <<"s", "e", "l", "l", "e", "r">>
S_offer == <<"o", "f", "f", "e", "r", " ", "$", "3">>
S_counter == <<"c", "o", "u", "n", "t", "e", "r", " ", "$", "4">>
S_note == <<"n", "o", "t", "e">>
S_status == <<"s", "t", "a", "t", "u", "s">>
S_pending == <<"p", "e", "n", "d", "i", "n", "g">>
S_price == <<"p", "r", "i", "c", "e">>
S_decision == <<"d", "e", "c", "i", "s", "i", "o", "n">>
S_terms == <<"t", "e", "r", "m", "s">>
S_yes == <<"y", "e", "s">>
S_session == <<"s", "-", "1">>

\* str(uuid4()) and datetime.now(timezone.utc).isoformat()
Uuids == { <<"u", "-", "1">>, <<"u", "-", "2">> }
Clock == { <<"2", "0", "2", "6", "-", "0", "2", "-", "1", "9", "T", "1", "0", ":", "0", "0">> }

At(loc, field, i, text, default) ==
    IF loc.field = field /\ loc.idx = i THEN text ELSE default

\* NegotiationEntry(speaker, role, message, timestamp, metadata)
Entry(i, loc, text) ==
    [speaker |-> At(loc, "speaker", i, text,
                    IF i % 2 = 1 THEN S_Buyer ELSE S_Seller),
     role |-> At(loc, "role", i, text, IF i % 2 = 1 THEN S_buyer ELSE S_seller),
     message |-> At(loc, "message", i, text,
                    IF i % 2 = 1 THEN S_offer ELSE S_counter),
     timestamp |-> At(loc, "timestamp", i, text, <<"T">> \o int_str(i)),
     metadata |-> IF loc.field = "metadata" /\ loc.idx = i
                  THEN <<JDict(<< <<S_note, JStr(text)>> >>)>>
                  ELSE IF i % 2 = 1 THEN <<>> ELSE <<EmptyDict>>]

Compromise(loc, text) ==
    LET base == << <<S_status, JStr(S_pending)>>, <<S_price, JNum(3)>> >> IN
    CASE loc.field = "compromise_key" ->
            JDict(base \o << <<text, JStr(S_yes)>> >>)
      [] loc.field = "compromise_value" ->
            JDict(<< <<S_decision, JStr(text)>> >> \o base)
      [] loc.field = "compromise_nested" ->
            JDict(base \o << <<S_terms,
                               JDict(<< <<S_note, JList(<<JNum(1), JStr(text)>>)>> >>) >> >>)
      [] OTHER -> JDict(base)

\* the arguments of one build_transcript call; participants and session_id
\* are <<>> when omitted (None)
BuildArgs(n, loc, inj, given) ==
    [entries |-> [i \in 1..n |-> Entry(i, loc, inj.text)],
     compromise |-> Compromise(loc, inj.text),
     participants |->
        IF loc.field = "participants" THEN << <<inj.text, S_Buyer>> >>
        ELSE IF given THEN << <<S_Seller, S_Buyer, S_Seller>> >>
        ELSE <<>>,
     session_id |->
        IF loc.field = "session_id" THEN <<inj.text>>
        ELSE IF given THEN <<S_session>>
        ELSE <<>>,
     loc |-> loc,
     inj |-> inj]

BuildInputs ==
    UNION {{BuildArgs(n, loc, inj, given) :
                loc \in Locations(n), inj \in Injections, given \in BOOLEAN} :
           n \in 0..MaxEntries}

\* clean negotiations whose turns are taken by the speakers `who`, in that
\* order, participants and session id omitted
SpeakerArgs(who) ==
    [BuildArgs(Len(who), Loc("none", 0), [text |-> <<>>, forbidden |-> FALSE], FALSE)
        EXCEPT !.entries = [i \in 1..Len(who) |-> [@[i] EXCEPT !.speaker = who[i]]]]

SpeakerInputs ==
    UNION {{SpeakerArgs(who) : who \in [1..n -> {S_Buyer, S_Seller}]} :
           n \in 1..MaxEntries}

\* negotiations with forbidden phrases in several places at once: marks[i]
\* says whether the message of entry i is clean, holds one phrase inside a
\* sentence, or two phrases one after the other; comp, whether a value of the
\* compromise holds one.  The phrases differ from place to place.
GuardMarks == {"clean", "one", "two"}

GuardMessage(i, mark, default) ==
    CASE mark = "one" -> InSentence(Cased(((i - 1) % 3) + 1, "alternate"))
      [] mark = "two" ->
            Cased(4, "upper") \o <<" ">> \o Cased(((i - 1) % 3) + 1, "lower")
      [] OTHER -> default

GuardArgs(marks, comp) ==
    LET n == Len(marks)
        marked == {i \in 1..n : marks[i] # "clean"}
        first == IF marked = {} THEN 0
                 ELSE CHOOSE i \in marked : \A j \in marked : i <= j
        base == BuildArgs(n, IF comp THEN Loc("compromise_value", 0)
                             ELSE Loc("none", 0),
                          [text |-> Cased(4, "title"), forbidden |-> TRUE], FALSE)
    IN [base EXCEPT
            !.entries = [i \in 1..n |->
                            [@[i] EXCEPT !.message = GuardMessage(i, marks[i], @)]],
            !.loc = IF marked = {} THEN base.loc ELSE Loc("message", first),
            !.inj = IF marked = {} THEN base.inj
                    ELSE [text |-> GuardMessage(first, marks[first], <<>>),
                          forbidden |-> TRUE]]

GuardInputs ==
    UNION {{GuardArgs(marks, comp) :
                marks \in {m \in [1..n -> GuardMarks] :
                              \E i \in 1..n : m[i] # "clean"},
                comp \in BOOLEAN} :
           n \in 1..MaxEntries}

NoBuildArgs ==
    [entries |-> <<>>, compromise |-> EmptyDict, participants |-> <<>>,
     session_id |-> <<>>, loc |-> Loc("none", 0),
     inj |-> [text |-> <<>>, forbidden |-> FALSE]]

(***************************************************************************)
(* build_transcript, statement by statement, and what its caller does with *)
(* the transcript afterwards.                                              *)
(***************************************************************************)
NoTranscriptError ==
    [type |-> "none", source |-> "none", index |-> 0, speaker |-> <<>>,
     phrase |-> <<>>]

NoBuildOut == [kind |-> "none", exc |-> NoTranscriptError]

\* a local is <<>> until it is assigned, <<v>> once it holds v
NoLocals ==
    [resolved_participants |-> <<>>, resolved_session_id |-> <<>>,
     created_at |-> <<>>, transcript_json |-> <<>>, transcript_hash |-> <<>>]

TranscriptIdle ==
    /\ tpc = "idle"
    /\ tIn = NoBuildArgs
    /\ tLoc = NoLocals
    /\ tOut = NoBuildOut
    /\ transcript = <<>>
    /\ tampered = {}
    /\ vOut = <<>>

\* the entries are not looked at before the resolved_* assignments
BuildCall_without_empty_check(args, uuid, now) ==
    /\ tpc = "idle"
    /\ tIn' = args
    /\ tpc' = "validate"
    /\ tOut' = NoBuildOut
    /\ tLoc' =
        [NoLocals EXCEPT
            !.resolved_participants =
                <<IF args.participants # <<>> /\ args.participants[1] # <<>>
                  THEN sorted(args.participants[1])
                  ELSE sorted_set({args.entries[i].speaker :
                                      i \in 1..Len(args.entries)})>>,
            !.resolved_session_id =
                <<IF args.session_id # <<>> /\ args.session_id[1] # <<>>
                  THEN args.session_id[1]
                  ELSE uuid>>,
            !.created_at = <<now>>]
    /\ UNCHANGED <<transcript, tampered, vOut>>

\* if not entries: raise ValueError; then the three resolved_* assignments
BuildCall(args, uuid, now) ==
    /\ tpc = "idle"
    /\ tIn' = args
    /\ IF args.entries = <<>>
       THEN /\ tpc' = "done"
            /\ tOut' = [kind |-> "raised", exc |-> EmptyEntriesError]
            /\ tLoc' = NoLocals
       ELSE /\ tpc' = "validate"
            /\ tOut' = NoBuildOut
            /\ tLoc' =
                [NoLocals EXCEPT
                    !.resolved_participants =
                        <<IF args.participants # <<>> /\ args.participants[1] # <<>>
                          THEN sorted(args.participants[1])
                          ELSE sorted_set({args.entries[i].speaker :
                                              i \in 1..Len(args.entries)})>>,
                    !.resolved_session_id =
                        <<IF args.session_id # <<>> /\ args.session_id[1] # <<>>
                          THEN args.session_id[1]
                          ELSE uuid>>,
                    !.created_at = <<now>>]
    /\ UNCHANGED <<transcript, tampered, vOut>>

CanonicalJson ==
    dumps(build_canonical_dict(tLoc.resolved_session_id[1],
                               tLoc.resolved_participants[1],
                               tIn.entries, tIn.compromise, tLoc.created_at[1]),
          TRUE)

\* the guard is consulted after the text and its hash have been computed
BuildValidate_after_hashing ==
    /\ tpc = "validate"
    /\ LET r == validate_no_execution_authority(tIn.entries, tIn.compromise) IN
       IF r # <<>>
       THEN /\ tpc' = "done"
            /\ tOut' = [kind |-> "raised", exc |-> r[1]]
            /\ tLoc' = [tLoc EXCEPT
                            !.transcript_json = <<CanonicalJson>>,
                            !.transcript_hash = <<hash_transcript(CanonicalJson)>>]
       ELSE /\ tpc' = "canonical"
            /\ UNCHANGED <<tOut, tLoc>>
    /\ UNCHANGED <<tIn, transcript, tampered, vOut>>

\* validate_no_execution_authority(entries, compromise)
BuildValidate ==
    /\ tpc = "validate"
    /\ LET r == validate_no_execution_authority(tIn.entries, tIn.compromise) IN
       IF r # <<>>
       THEN /\ tpc' = "done"
            /\ tOut' = [kind |-> "raised", exc |-> r[1]]
       ELSE /\ tpc' = "canonical"
            /\ UNCHANGED tOut
    /\ UNCHANGED <<tIn, tLoc, transcript, tampered, vOut>>

\* canonical = _build_canonical_dict(...); transcript_json = json.dumps(...)
BuildCanonical ==
    /\ tpc = "canonical"
    /\ tpc' = "hash"
    /\ tLoc' = [tLoc EXCEPT !.transcript_json = <<CanonicalJson>>]
    /\ UNCHANGED <<tIn, tOut, transcript, tampered, vOut>>

\* the hash is taken of the dict serialized without sort_keys
BuildHash_of_unsorted ==
    /\ tpc = "hash"
    /\ tpc' = "return"
    /\ tLoc' = [tLoc EXCEPT !.transcript_hash =
                    <<hash_transcript(
                        dumps(build_canonical_dict(tLoc.resolved_session_id[1],
                                                   tLoc.resolved_participants[1],
                                                   tIn.entries, tIn.compromise,
                                                   tLoc.created_at[1]),
                              FALSE))>>]
    /\ UNCHANGED <<tIn, tOut, transcript, tampered, vOut>>

\* transcript_hash = hash_transcript(transcript_json)
BuildHash ==
    /\ tpc = "hash"
    /\ tpc' = "return"
    /\ tLoc' = [tLoc EXCEPT !.transcript_hash =
                    <<hash_transcript(tLoc.transcript_json[1])>>]
    /\ UNCHANGED <<tIn, tOut, transcript, tampered, vOut>>

\* return NegotiationTranscript(...)
BuildReturn ==
    /\ tpc = "return"
    /\ tpc' = "done"
    /\ tOut' = [kind |-> "returned", exc |-> NoTranscriptError]
    /\ transcript' =
        <<[session_id |-> tLoc.resolved_session_id[1],
           participants |-> tLoc.resolved_participants[1],
           entries |-> tIn.entries,
           compromise |-> tIn.compromise,
           created_at |-> tLoc.created_at[1],
           transcript_hash |-> tLoc.transcript_hash[1],
           transcript_json |-> tLoc.transcript_json[1]]>>
    /\ UNCHANGED <<tIn, tLoc, tampered, vOut>>

\* what a holder of the transcript may overwrite its stored text with
TamperTexts(tr) == {<<>>, tr.transcript_json \o <<" ">>}

\* ... and its stored digest with
TamperDigests(tr) ==
    {EmptyDigest, ZeroDigest, hash_transcript(tr.transcript_json \o <<" ">>)}

\* t.transcript_json = <another text>
TamperJson(x) ==
    /\ tpc = "done"
    /\ transcript # <<>>
    /\ "json" \notin tampered
    /\ x # transcript[1].transcript_json
    /\ transcript' = <<[transcript[1] EXCEPT !.transcript_json = x]>>
    /\ tampered' = tampered \cup {"json"}
    /\ UNCHANGED <<tpc, tIn, tLoc, tOut, vOut>>

\* t.transcript_hash = <another digest>
TamperHash(h) ==
    /\ tpc = "done"
    /\ transcript # <<>>
    /\ "hash" \notin tampered
    /\ h # transcript[1].transcript_hash
    /\ transcript' = <<[transcript[1] EXCEPT !.transcript_hash = h]>>
    /\ tampered' = tampered \cup {"hash"}
    /\ UNCHANGED <<tpc, tIn, tLoc, tOut, vOut>>

\* verify_transcript(t)
Verify ==
    /\ tpc = "done"
    /\ transcript # <<>>
    /\ tpc' = "verified"
    /\ vOut' = <<verify_transcript(transcript[1])>>
    /\ UNCHANGED <<tIn, tLoc, tOut, transcript, tampered>>


(***************************************************************************)
(* Several threads calling escrow, release and cancel on one client.  A    *)
(* thread's variables of _with_retries and of the operation are its own;   *)
(* the threads share self._session_receipts and self._session_results,     *)
(* which an operation touches in one place only, its list.append call (an  *)
(* atomic operation of the interpreter).                                   *)
(***************************************************************************)
ThreadIds == 1..MaxThreads

NoThread ==
    [pc |-> "idle", call |-> NoCall, attempt |-> 0, last_exc |-> NoExc,
     h |-> NoHelperOut, out |-> NoOpOut]

ThreadsIdle == threads = [t \in ThreadIds |-> NoThread]

\* the calls thread t may make: an escrow, or the settlement of an escrow
ThreadCalls(t) ==
    {ClientCall("escrow", IF t % 2 = 1 THEN "task-a" ELSE "task-b",
                IF t % 2 = 1 THEN 10 ELSE 20, "none", "None"),
     ClientCall(IF t % 2 = 1 THEN "release" ELSE "cancel", "none", 0, "esc-1",
                "none")}

\* what the exchange answers a thread's request with
ThreadOutcomes(c) ==
    {Raises("TimeoutException"), Response(500, "error", "none"),
     Response(402, "error", "none"), Response(409, "error", "none"),
     Response(200, "full", IF c.name = "escrow" THEN "esc-1" ELSE "none")}

\* thread t is in state s after a step of _with_retries that left it as h
ThreadAdvance(t, c, h) ==
    threads' = [threads EXCEPT ![t] =
        IF h.status = "running"
        THEN [pc |-> "running", call |-> c, attempt |-> h.attempt,
              last_exc |-> h.last_exc, h |-> NoHelperOut, out |-> NoOpOut]
        ELSE [pc |-> "finish", call |-> c, attempt |-> h.attempt,
              last_exc |-> h.last_exc, h |-> h, out |-> NoOpOut]]

\* thread t calls an operation: _with_retries is entered
ThreadCall(t, c) ==
    /\ threads[t].pc = "idle"
    /\ ThreadAdvance(t, c, loop_enter(1, c.retries, NoExc, c.name))
    /\ UNCHANGED <<session_receipts, session_results>>

\* one iteration of thread t's loop
ThreadAttempt(t, o) ==
    /\ threads[t].pc = "running"
    /\ LET th == threads[t]
           r == fn(th.call, o, th.attempt) IN
       ThreadAdvance(t, th.call,
                     with_retries_step(th.attempt, th.call.retries,
                                       th.call.backoff, th.last_exc,
                                       th.call.name, r))
    /\ UNCHANGED <<session_receipts, session_results>>

\* _with_retries is over: the operation raises, or builds its receipt or
\* result, appends it to the shared list and returns
ThreadFinish(t) ==
    /\ threads[t].pc = "finish"
    /\ LET th == threads[t]
           o == finish(th.call, th.h, session_receipts, session_results) IN
       /\ session_receipts' = o.receipts
       /\ session_results' = o.results
       /\ threads' = [threads EXCEPT ![t] =
            [pc |-> "done", call |-> th.call, attempt |-> 0,
             last_exc |-> NoExc, h |-> NoHelperOut,
             out |-> [kind |-> o.kind, value |-> o.value, exc |-> o.exc]]]

(***************************************************************************)
(* get_session_receipts(): the aggregates of the session ledger.  Amounts  *)
(* are whole numbers of tokens.                                            *)
(***************************************************************************)
\* sum(...) of a sequence of numbers
RECURSIVE sum(_)
sum(xs) == IF xs = <<>> THEN 0 ELSE xs[1] + sum(Tail(xs))

\* the cancelled total is taken from the cancelled results
get_session_receipts_cancelled_from_results(receipts, results) ==
    LET IsReleased(s) == s.status = "released"
        IsCancelled(s) == s.status = "cancelled"
        released == SelectSeq(results, IsReleased)
        cancelled == SelectSeq(results, IsCancelled)
        released_ids == {released[j].escrow_id : j \in 1..Len(released)}
        cancelled_ids == {cancelled[j].escrow_id : j \in 1..Len(cancelled)}
        InReleased(r) == r.escrow_id \in released_ids
        InCancelled(r) == r.escrow_id \in cancelled_ids
        of_released == SelectSeq(receipts, InReleased)
        of_cancelled == SelectSeq(receipts, InCancelled)
        total_released == sum([i \in 1..Len(of_released) |-> of_released[i].amount])
        total_escrowed == sum([i \in 1..Len(receipts) |-> receipts[i].amount])
    IN [receipts |-> receipts, results |-> results,
        total_escrowed |-> total_escrowed,
        total_released |-> total_released,
        total_cancelled |->
            sum([i \in 1..Len(of_cancelled) |-> of_cancelled[i].amount]),
        cancelled_count |-> Len(cancelled)]

get_session_receipts(receipts, results) ==
    LET IsReleased(s) == s.status = "released"
        IsCancelled(s) == s.status = "cancelled"
        released == SelectSeq(results, IsReleased)
        \* released_ids = {s.escrow_id for s in ... if s.status == "released"}
        released_ids == {released[j].escrow_id : j \in 1..Len(released)}
        InReleased(r) == r.escrow_id \in released_ids
        of_released == SelectSeq(receipts, InReleased)
        \* total_released = sum(r.amount for r in ... if r.escrow_id in released_ids)
        total_released == sum([i \in 1..Len(of_released) |-> of_released[i].amount])
        \* cancelled_count = sum(1 for s in ... if s.status == "cancelled")
        cancelled_count == Len(SelectSeq(results, IsCancelled))
        \* total_escrowed = sum(r.amount for r in self._session_receipts)
        total_escrowed == sum([i \in 1..Len(receipts) |-> receipts[i].amount])
    IN [receipts |-> receipts, results |-> results,
        total_escrowed |-> total_escrowed,
        total_released |-> total_released,
        total_cancelled |-> total_escrowed - total_released,
        cancelled_count |-> cancelled_count]

SummaryIdle == summary = <<>>

\* the caller asks for the session summary
GetSessionReceipts ==
    /\ summary = <<>>
    /\ summary' = <<get_session_receipts(session_receipts, session_results)>>

\* the ledgers of a session: the receipts of its successful escrows and the
\* results of its successful releases and cancels, in the order of the calls
Receipt(eid, task, amount) ==
    [escrow_id |-> eid, task_id |-> task, payer_address |-> "0xPAYER",
     payee_address |-> "0xPAYEE", amount |-> amount, status |-> "escrowed"]

Result(eid, status) == [escrow_id |-> eid, status |-> status, tx_hash |-> "0xTX"]

LedgerReceipts ==
    {Receipt("esc-1", "task-a", 10), Receipt("esc-2", "task-b", 20),
     Receipt("esc-3", "task-c", 5), Receipt("esc-1", "task-a", 20)}

LedgerResults ==
    {Result("esc-1", "released"), Result("esc-2", "released"),
     Result("esc-3", "cancelled"), Result("esc-1", "cancelled")}

SeqsUpTo(S, n) == UNION {[1..k -> S] : k \in 0..n}

LedgerInit ==
    /\ pc = "idle"
    /\ call = NoCall
    /\ attempt = 0
    /\ last_exc = NoExc
    /\ sleeps = <<>>
    /\ attemptLog = <<>>
    /\ helperOut = NoHelperOut
    /\ opOut = NoOpOut
    /\ nCalls = 0
    /\ session_receipts \in SeqsUpTo(LedgerReceipts, MaxLedger)
    /\ session_results \in SeqsUpTo(LedgerResults, MaxLedger)

(***************************************************************************)
(* get_session_receipts statement by statement, run by one thread while    *)
(* other threads finish escrow, release and cancel calls on the same       *)
(* client.  The method takes no lock; each statement reads the ledger      *)
(* lists as they are when it runs.                                         *)
(***************************************************************************)
NoReader ==
    [pc |-> "idle", released_ids |-> {}, total_released |-> 0,
     cancelled_count |-> 0, total_escrowed |-> 0, receipts |-> <<>>,
     results |-> <<>>]

\* the next statement of get_session_receipts, on the ledger as it is now
summary_step(rd, receipts, results) ==
    LET IsReleased(s) == s.status = "released"
        IsCancelled(s) == s.status = "cancelled"
        released == SelectSeq(results, IsReleased)
        InReleased(r) == r.escrow_id \in rd.released_ids
        of_released == SelectSeq(receipts, InReleased) IN
    CASE rd.pc = "released_ids" ->
            [rd EXCEPT !.pc = "total_released",
                       !.released_ids =
                            {released[j].escrow_id : j \in 1..Len(released)}]
      [] rd.pc = "total_released" ->
            [rd EXCEPT !.pc = "cancelled_count",
                       !.total_released =
                            sum([i \in 1..Len(of_released) |-> of_released[i].amount])]
      [] rd.pc = "cancelled_count" ->
            [rd EXCEPT !.pc = "total_escrowed",
                       !.cancelled_count = Len(SelectSeq(results, IsCancelled))]
      [] rd.pc = "total_escrowed" ->
            [rd EXCEPT !.pc = "receipts",
                       !.total_escrowed =
                            sum([i \in 1..Len(receipts) |-> receipts[i].amount])]
      \* receipts=list(self._session_receipts)
      [] rd.pc = "receipts" -> [rd EXCEPT !.pc = "results", !.receipts = receipts]
      \* results=list(self._session_results)
      [] rd.pc = "results" -> [rd EXCEPT !.pc = "return", !.results = results]

ReaderCall ==
    /\ reader.pc = "idle"
    /\ reader' = [reader EXCEPT !.pc = "released_ids"]
    /\ UNCHANGED <<summary, session_receipts, session_results>>

ReaderStep ==
    /\ reader.pc \in {"released_ids", "total_released", "cancelled_count",
                      "total_escrowed", "receipts", "results"}
    /\ reader' = summary_step(reader, session_receipts, session_results)
    /\ UNCHANGED <<summary, session_receipts, session_results>>

\* return SessionSummary(...)
ReaderReturn ==
    /\ reader.pc = "return"
    /\ reader' = [reader EXCEPT !.pc = "done"]
    /\ summary' = <<[receipts |-> reader.receipts, results |-> reader.results,
                     total_escrowed |-> reader.total_escrowed,
                     total_released |-> reader.total_released,
                     total_cancelled |->
                        reader.total_escrowed - reader.total_released,
                     cancelled_count |-> reader.cancelled_count]>>
    /\ UNCHANGED <<session_receipts, session_results>>

\* another thread's escrow call ends: self._session_receipts.append(receipt)
OtherEscrowEnds ==
    /\ Len(session_receipts) < MaxLedger
    /\ LET k == Len(session_receipts) + 1 IN
       session_receipts' =
            Append(session_receipts,
                   Receipt("esc-" \o ToString(k), "task-" \o ToString(k), 10 * k))
    /\ UNCHANGED <<summary, reader, session_results>>

\* another thread's release or cancel ends: self._session_results.append(result)
OtherSettlementEnds(status) ==
    /\ \E i \in 1..Len(session_receipts) :
        /\ \A j \in 1..Len(session_results) :
                session_results[j].escrow_id # session_receipts[i].escrow_id
        /\ session_results' =
                Append(session_results, Result(session_receipts[i].escrow_id, status))
    /\ UNCHANGED <<summary, reader, session_receipts>>

(***************************************************************************)
(* The collections of a SessionSummary as objects.  A list is an object    *)
(* with an identity: the client's own lists (self._session_receipts and    *)
(* self._session_results) and the lists created by a call.  A summary      *)
(* handed to the caller holds references; what the caller does to a list   *)
(* it was handed happens to the object referred to.                        *)
(***************************************************************************)
\* the client's own list (of receipts or of results, by the field it is in)
OwnList == [own |-> TRUE, id |-> 0]

\* the k-th list object created for a caller
NewList(k) == [own |-> FALSE, id |-> k]

\* the summary is handed the client's own lists
summary_collections_aliased(n) == [receipts |-> OwnList, results |-> OwnList]

\* receipts=list(self._session_receipts), results=list(self._session_results):
\* two new lists, when n were created before
summary_collections(n) ==
    [receipts |-> NewList(n + 1), results |-> NewList(n + 2)]

\* the elements of the list referred to; own is the client's list of the field
Deref(ref, own) == IF ref.own THEN own ELSE lists[ref.id]

ReceiptsOf(s) == Deref(s.receipts, session_receipts)
ResultsOf(s) == Deref(s.results, session_results)

SessionIdle ==
    /\ held = <<>>
    /\ lists = <<>>
    /\ mutated = {}
    /\ exchange = {}
    /\ reader = NoReader

\* s = client.get_session_receipts(), kept by the caller; `after` notes the
\* lists the caller had changed before this call
TakeSummary ==
    /\ Len(held) < MaxCalls
    /\ LET s == get_session_receipts(session_receipts, session_results)
           c == summary_collections(Len(lists)) IN
       /\ lists' = lists \o <<s.receipts, s.results>>
       /\ held' = Append(held,
            [receipts |-> c.receipts, results |-> c.results,
             total_escrowed |-> s.total_escrowed,
             total_released |-> s.total_released,
             total_cancelled |-> s.total_cancelled,
             cancelled_count |-> s.cancelled_count,
             after |-> mutated])
    /\ UNCHANGED mutated

\* list.clear(), list.pop(), list.append(x)
ListEdits == {"clear", "pop", "append"}

edit_list(xs, op, x) ==
    CASE op = "clear" -> <<>>
      [] op = "pop" -> SubSeq(xs, 1, Len(xs) - 1)
      [] op = "append" -> Append(xs, x)

\* the caller changes a collection of the k-th summary it holds
MutateReturned(k, field, op) ==
    LET ref == IF field = "receipts" THEN held[k].receipts ELSE held[k].results
        own == IF field = "receipts" THEN session_receipts ELSE session_results
        x == IF field = "receipts" THEN Receipt("esc-9", "task-z", 7)
             ELSE Result("esc-9", "released")
        new == edit_list(Deref(ref, own), op, x) IN
    /\ <<field, ref>> \notin mutated
    /\ op = "pop" => Deref(ref, own) # <<>>
    /\ mutated' = mutated \cup {<<field, ref>>}
    /\ IF ref.own
       THEN /\ session_receipts' = IF field = "receipts" THEN new ELSE session_receipts
            /\ session_results' = IF field = "results" THEN new ELSE session_results
            /\ UNCHANGED lists
       ELSE /\ lists' = [lists EXCEPT ![ref.id] = new]
            /\ UNCHANGED <<session_receipts, session_results>>
    /\ UNCHANGED held

\* a session with up to MaxCalls escrows made, the first possibly released
SnapshotInit ==
    /\ pc = "idle"
    /\ call = NoCall
    /\ attempt = 0
    /\ last_exc = NoExc
    /\ sleeps = <<>>
    /\ attemptLog = <<>>
    /\ helperOut = NoHelperOut
    /\ opOut = NoOpOut
    /\ nCalls = 0
    /\ \E n \in 0..MaxCalls :
        /\ session_receipts =
            [i \in 1..n |-> Receipt("esc-" \o ToString(i), "task-" \o ToString(i),
                                    10 * i)]
        /\ session_results \in
            {<<>>} \cup (IF n >= 1 THEN {<<Result("esc-1", "released")>>,
                                          <<Result("esc-1", "cancelled")>>}
                         ELSE {})

(***************************************************************************)
(* The idempotency key of escrow(): the payload is built once, before      *)
(* _with_retries, and every attempt of the call posts it.  None is "None". *)
(***************************************************************************)
\* the key passed is never looked at
escrow_key_always_derived(idempotency_key, task_id) == "task-" \o task_id

\* key = idempotency_key or f"task-{task_id}"
escrow_key(idempotency_key, task_id) ==
    IF idempotency_key # "None" /\ idempotency_key # ""
    THEN idempotency_key
    ELSE "task-" \o task_id

\* json=payload of one POST, as the exchange files it
Request(c) ==
    [task_id |-> c.task_id, passed |-> c.idempotency_key,
     key |-> escrow_key(c.idempotency_key, c.task_id)]

PassedKeys == ExplicitKeys \cup {"key-2", "", "None"}

KeyCalls ==
    {ClientCall("escrow", a[1], a[2], "none", k) :
        a \in EscrowArgs, k \in PassedKeys}

KeyOutcomes ==
    {Raises("TimeoutException"), Response(500, "error", "none"),
     Response(402, "error", "none"), Response(409, "error", "none"),
     Response(200, "full", "esc-1")}

PostedIdle == posted = {}

\* one attempt of an escrow call: the request reaches the exchange (or is
\* lost on the way) and the transport answers with t
KeyAttempt(t) ==
    /\ call.name = "escrow"
    /\ Attempt(t)
    /\ posted' = posted \cup {Request(call)}

(***************************************************************************)
(* The exchange behind the transport, as the client's docstrings and tests *)
(* describe it: POST /v1/escrow deduplicates by idempotency key, POST      *)
(* /v1/escrow/{id}/release and .../cancel settle an escrow once and reject *)
(* a settled one with 422.  A request may be lost before it arrives, and a *)
(* response may be lost after the exchange has acted.                      *)
(***************************************************************************)
XEscrow(id, key, status) == [id |-> id, key |-> key, status |-> status]

\* the exchange serves the request of call c: its escrows afterwards and the
\* responses it may give
exchange_serve(x, c) ==
    IF c.name = "escrow"
    THEN LET key == escrow_key(c.idempotency_key, c.task_id)
             known == {e \in x : e.key = key} IN
         IF known # {}
         \* the escrow of this key exists: it is returned, or 409 is answered
         THEN {[escrows |-> x, response |-> Response(200, "full", e.id)] :
                    e \in known}
              \cup {[escrows |-> x, response |-> Response(409, "error", "none")]}
         ELSE LET id == "esc-" \o ToString(Cardinality(x) + 1) IN
              {[escrows |-> x \cup {XEscrow(id, key, "escrowed")},
                response |-> Response(200, "full", id)]}
    ELSE LET to == IF c.name = "release" THEN "released" ELSE "cancelled"
             open == {e \in x : e.id = c.escrow_id /\ e.status = "escrowed"}
             settled == {e \in x : e.id = c.escrow_id /\ e.status # "escrowed"} IN
         IF open # {}
         THEN {[escrows |-> (x \ open) \cup {[e EXCEPT !.status = to] : e \in open},
                response |-> Response(200, "full", "none")]}
         ELSE IF settled # {}
         THEN {[escrows |-> x, response |-> Response(422, "error", "none")]}
         ELSE {[escrows |-> x, response |-> Response(404, "error", "none")]}

\* the calls made against the exchange
ExchangeCalls ==
    {ClientCall("escrow", "task-a", 10, "none", k) : k \in {"None", "key-1"}}
    \cup {ClientCall(n, "none", 0, "esc-1", "none") : n \in {"release", "cancel"}}

\* one attempt whose request never arrives
AttemptLost ==
    /\ call \in ExchangeCalls
    /\ Attempt(Raises("TimeoutException"))
    /\ UNCHANGED exchange

\* one attempt on which the exchange is unavailable
AttemptUnavailable ==
    /\ call \in ExchangeCalls
    /\ Attempt(Response(500, "error", "none"))
    /\ UNCHANGED exchange

\* one attempt served by the exchange; the response arrives, or is lost
AttemptServed(delivered) ==
    /\ call \in ExchangeCalls
    /\ \E r \in exchange_serve(exchange, call) :
        /\ exchange' = r.escrows
        /\ Attempt(IF delivered THEN r.response ELSE Raises("TimeoutException"))

(***************************************************************************)
(* The singleton lifecycle.  The class attribute _instance holds None (0)  *)
(* or a client; every client owns one HTTP connection (_http), injected or *)
(* constructed, "open" until closed.  The lifecycle calls are made one at  *)
(* a time; _clear_instance is taken in two steps, its try block and its    *)
(* assignment, so that the state between them is a state of the model.     *)
(***************************************************************************)
NoInstance == 0

\* A2ASettlementClient(config, http_client): self._http = http_client or
\* httpx.Client(...)
NewClient(api_key, injected) ==
    [api_key |-> api_key, injected |-> injected, http |-> "open"]

LifecycleReturn(op, value) ==
    [op |-> op, kind |-> "returned", value |-> value, exc |-> "none"]

LifecycleRaise(op, exc) ==
    [op |-> op, kind |-> "raised", value |-> NoInstance, exc |-> exc]

\* the classic singleton: an instance once created is kept
initialize_keeps_first(api_key, injected, inst, cls) ==
    IF api_key = ""
    THEN [instance |-> inst, clients |-> cls,
          out |-> LifecycleRaise("initialize", "A2AAuthError")]
    ELSE IF inst # NoInstance
    THEN [instance |-> inst, clients |-> cls,
          out |-> LifecycleReturn("initialize", inst)]
    ELSE [instance |-> Len(cls) + 1,
          clients |-> Append(cls, NewClient(api_key, injected)),
          out |-> LifecycleReturn("initialize", Len(cls) + 1)]

\* the instance is constructed and stored before the key is looked at
initialize_checks_key_last(api_key, injected, inst, cls) ==
    [instance |-> Len(cls) + 1,
     clients |-> Append(cls, NewClient(api_key, injected)),
     out |-> IF api_key = ""
             THEN LifecycleRaise("initialize", "A2AAuthError")
             ELSE LifecycleReturn("initialize", Len(cls) + 1)]

\* initialize(config, http_client); api_key "" stands for every falsy key
initialize(api_key, injected, inst, cls) ==
    \* if not resolved_config.api_key: raise A2AAuthError(...)
    IF api_key = ""
    THEN [instance |-> inst, clients |-> cls,
          out |-> LifecycleRaise("initialize", "A2AAuthError")]
    \* cls._instance = cls(resolved_config, http_client=http_client)
    ELSE [instance |-> Len(cls) + 1,
          clients |-> Append(cls, NewClient(api_key, injected)),
          out |-> LifecycleReturn("initialize", Len(cls) + 1)]

get_instance(inst) ==
    IF inst = NoInstance
    THEN LifecycleRaise("get_instance", "A2ASettlementError")
    ELSE LifecycleReturn("get_instance", inst)

\* self._http.close(): the connection is closed whether or not close() raises
close(cls, i) == [cls EXCEPT ![i].http = "closed"]

\* the reference is dropped first and the connection is left as it is
clear_instance_drops_first(at, inst, cls, raised) ==
    [lpc |-> IF at = "idle" THEN "closed" ELSE "idle",
     instance |-> NoInstance, clients |-> cls]

\* _clear_instance, one step from the position `at`: from "idle" the test and
\* the try block, which end at "closed", or at "except" when close() raised
\* an Exception (swallowed by `except Exception: pass`); then the assignment
clear_instance(at, inst, cls, raised) ==
    IF at = "idle"
    \* if cls._instance and cls._instance._http: try: ...close()
    THEN IF inst # NoInstance
         THEN [lpc |-> IF raised THEN "except" ELSE "closed", instance |-> inst,
               clients |-> close(cls, inst)]
         ELSE [lpc |-> "closed", instance |-> inst, clients |-> cls]
    \* cls._instance = None
    ELSE [lpc |-> "idle", instance |-> NoInstance, clients |-> cls]

ApiKeys == {"", "key"}

SingletonInit ==
    /\ instance = NoInstance
    /\ clients = <<>>
    /\ lpc = "idle"
    /\ lifecycle = <<>>

Initialize(api_key, injected) ==
    /\ lpc = "idle"
    /\ Len(lifecycle) < MaxOps
    /\ LET r == initialize(api_key, injected, instance, clients) IN
       /\ instance' = r.instance
       /\ clients' = r.clients
       /\ lifecycle' = Append(lifecycle, r.out)
    /\ UNCHANGED lpc

GetInstance ==
    /\ lpc = "idle"
    /\ Len(lifecycle) < MaxOps
    /\ lifecycle' = Append(lifecycle, get_instance(instance))
    /\ UNCHANGED <<instance, clients, lpc>>

\* _clear_instance is entered: the test and the try block
ClearInstanceClose(raised) ==
    /\ lpc = "idle"
    /\ Len(lifecycle) < MaxOps
    /\ LET r == clear_instance(lpc, instance, clients, raised) IN
       /\ lpc' = r.lpc
       /\ instance' = r.instance
       /\ clients' = r.clients
    /\ UNCHANGED lifecycle

\* _clear_instance assigns None and returns
ClearInstanceAssign ==
    /\ lpc # "idle"
    /\ LET r == clear_instance(lpc, instance, clients, FALSE) IN
       /\ lpc' = r.lpc
       /\ instance' = r.instance
       /\ clients' = r.clients
    /\ lifecycle' = Append(lifecycle, LifecycleReturn("clear_instance", NoInstance))

\* __exit__: a `with` block on the active client ends
Exit ==
    /\ lpc = "idle"
    /\ Len(lifecycle) < MaxOps
    /\ instance # NoInstance
    /\ clients' = close(clients, instance)
    /\ lifecycle' = Append(lifecycle, LifecycleReturn("exit", instance))
    /\ UNCHANGED <<instance, lpc>>

(***************************************************************************)
(* Canonicalization as a function of its input: lines 98-106 of            *)
(* build_transcript applied to (entries, compromise, participants,         *)
(* session_id, created_at), for two invocations side by side.  The inputs  *)
(* are a negotiation and an edited copy of it.                             *)
(***************************************************************************)
\* entries are emitted in the order of their timestamps
RECURSIVE InsertByTimestamp(_, _)
InsertByTimestamp(e, es) ==
    IF es = <<>> THEN <<e>>
    ELSE IF StrLess(e.timestamp, es[1].timestamp) THEN <<e>> \o es
    ELSE <<es[1]>> \o InsertByTimestamp(e, Tail(es))

RECURSIVE SortByTimestamp(_)
SortByTimestamp(es) ==
    IF es = <<>> THEN <<>>
    ELSE InsertByTimestamp(es[Len(es)], SortByTimestamp(SubSeq(es, 1, Len(es) - 1)))

transcript_text_entries_by_time(x) ==
    dumps(build_canonical_dict(x.session_id, x.participants,
                               SortByTimestamp(x.entries), x.compromise,
                               x.created_at), TRUE)

\* the text is serialized without sort_keys
transcript_text_unsorted(x) ==
    dumps(build_canonical_dict(x.session_id, x.participants, x.entries,
                               x.compromise, x.created_at), FALSE)

\* the timestamp of an entry is left out of the text
transcript_text_without_timestamps(x) ==
    dumps(build_canonical_dict(x.session_id, x.participants,
                               [i \in 1..Len(x.entries) |->
                                    [x.entries[i] EXCEPT !.timestamp = <<>>]],
                               x.compromise, x.created_at), TRUE)

\* canonical = _build_canonical_dict(...)
\* transcript_json = json.dumps(canonical, sort_keys=True, ensure_ascii=True)
transcript_text(x) ==
    dumps(build_canonical_dict(x.session_id, x.participants, x.entries,
                               x.compromise, x.created_at), TRUE)

\* transcript_json and transcript_hash of one invocation
canonicalize(x) ==
    [transcript_json |-> transcript_text(x),
     transcript_hash |-> hash_transcript(transcript_text(x))]

Reversed(xs) == [i \in 1..Len(xs) |-> xs[Len(xs) + 1 - i]]

S_a == <<"a">>
S_b == <<"b">>
S_Agent == <<"A", "g", "e", "n", "t">>

\* a mapping of two keys, inserted as a, b
TwoKeys == JDict(<< <<S_a, JNum(1)>>, <<S_b, JNum(2)>> >>)

\* the metadata of the first entry: None, {}, or a mapping of two keys
CanonMetadata == {<<>>, <<EmptyDict>>, <<TwoKeys>>}

CanonParticipants ==
    {<<S_Buyer, S_Seller>>, <<S_Seller, S_Buyer>>, <<S_Seller, S_Buyer, S_Seller>>}

CanonInput(n, md, ps, backwards) ==
    LET es == [i \in 1..n |->
                [Entry(i, Loc("none", 0), <<>>) EXCEPT
                    !.metadata = IF i = 1 THEN md ELSE @]] IN
    [entries |-> IF backwards THEN Reversed(es) ELSE es,
     compromise |-> Compromise(Loc("compromise_nested", 0), S_yes),
     participants |-> ps,
     session_id |-> S_session,
     created_at |-> CHOOSE t \in Clock : TRUE]

CanonInputs ==
    {CanonInput(n, md, ps, bw) :
        n \in 1..MaxEntries, md \in CanonMetadata, ps \in CanonParticipants,
        bw \in BOOLEAN}

\* one character of a text changed (its last)
OneCharChanged(s) ==
    [s EXCEPT ![Len(s)] = IF @ = "x" THEN "y" ELSE "x"]

Edits ==
    {"none", "message", "speaker", "role", "timestamp", "metadata_set",
     "metadata_emptied", "metadata_reinserted", "compromise_reinserted",
     "compromise_value", "participants_reordered", "participants_added",
     "session_id", "created_at", "entries_swapped", "entry_dropped"}

\* the entry e with one field edited
EditEntry(e, edit) ==
    CASE edit = "message" -> [e EXCEPT !.message = OneCharChanged(@)]
      [] edit = "speaker" -> [e EXCEPT !.speaker = OneCharChanged(@)]
      [] edit = "role" -> [e EXCEPT !.role = OneCharChanged(@)]
      [] edit = "timestamp" -> [e EXCEPT !.timestamp = OneCharChanged(@)]
      [] edit = "metadata_set" ->
            [e EXCEPT !.metadata = <<JDict(<< <<S_note, JStr(S_yes)>> >>)>>]
      \* None becomes {}, anything else becomes None
      [] edit = "metadata_emptied" ->
            [e EXCEPT !.metadata = IF @ = <<>> THEN <<EmptyDict>> ELSE <<>>]
      \* the same mapping, its keys inserted in the opposite order
      [] edit = "metadata_reinserted" ->
            [e EXCEPT !.metadata =
                IF @ = <<>> THEN @ ELSE <<JDict(Reversed(@[1].items))>>]
      [] OTHER -> e

\* the input x with one of its fields edited
Edit(x, edit) ==
    CASE edit = "compromise_reinserted" ->
            [x EXCEPT !.compromise = JDict(Reversed(@.items))]
      [] edit = "compromise_value" ->
            [x EXCEPT !.compromise = JDict(@.items \o << <<S_a, JNum(1)>> >>)]
      [] edit = "participants_reordered" ->
            [x EXCEPT !.participants = Reversed(@)]
      [] edit = "participants_added" ->
            [x EXCEPT !.participants = @ \o <<S_Agent>>]
      [] edit = "session_id" -> [x EXCEPT !.session_id = OneCharChanged(@)]
      [] edit = "created_at" -> [x EXCEPT !.created_at = OneCharChanged(@)]
      [] edit = "entries_swapped" -> [x EXCEPT !.entries = Reversed(@)]
      [] edit = "entry_dropped" ->
            [x EXCEPT !.entries = IF Len(@) > 1 THEN Tail(@) ELSE @]
      [] OTHER ->
            [x EXCEPT !.entries = [@ EXCEPT ![1] = EditEntry(@, edit)]]

NoCanonInput ==
    [entries |-> <<>>, compromise |-> EmptyDict, participants |-> <<>>,
     session_id |-> <<>>, created_at |-> <<>>]

CanonIdle ==
    /\ canonIn = <<NoCanonInput, NoCanonInput>>
    /\ canonOut = << <<>>, <<>> >>

CanonInit ==
    /\ \E x \in CanonInputs, edit \in Edits : canonIn = <<x, Edit(x, edit)>>
    /\ canonOut = << <<>>, <<>> >>

\* invocation k canonicalizes and hashes its input
Canonicalize(k) ==
    /\ canonOut[k] = <<>>
    /\ canonOut' = [canonOut EXCEPT ![k] = <<canonicalize(canonIn[k])>>]
    /\ UNCHANGED canonIn

(***************************************************************************)
(* Specifications.                                                         *)
(***************************************************************************)
OtherIdle ==
    /\ ThreadsIdle /\ SummaryIdle /\ PostedIdle /\ SingletonInit /\ CanonIdle
    /\ SessionIdle

Init == ClientInit /\ StatusIdle /\ TranscriptIdle /\ OtherIdle

Next ==
    \/ \E c \in Calls : Call(c) /\ UNCHANGED <<statusVars, transcriptVars, otherVars>>
    \/ \E t \in Outcomes(call) : Attempt(t) /\ UNCHANGED <<statusVars, transcriptVars, otherVars>>
    \/ Return /\ UNCHANGED <<statusVars, transcriptVars, otherVars>>

Spec == Init /\ [][Next]_vars

InitStatus == ClientInit /\ StatusInit /\ TranscriptIdle /\ OtherIdle

NextStatus == RaiseForStatus /\ UNCHANGED <<clientVars, transcriptVars, otherVars>>

SpecStatus == InitStatus /\ [][NextStatus]_vars

InitTranscript == ClientInit /\ StatusIdle /\ TranscriptIdle /\ OtherIdle

NextTranscript ==
    \/ /\ tpc = "idle"
       /\ \E a \in BuildInputs \cup SpeakerInputs \cup GuardInputs,
             u \in Uuids, now \in Clock :
            BuildCall(a, u, now)
       /\ UNCHANGED <<clientVars, statusVars, otherVars>>
    \/ BuildValidate /\ UNCHANGED <<clientVars, statusVars, otherVars>>
    \/ BuildCanonical /\ UNCHANGED <<clientVars, statusVars, otherVars>>
    \/ BuildHash /\ UNCHANGED <<clientVars, statusVars, otherVars>>
    \/ BuildReturn /\ UNCHANGED <<clientVars, statusVars, otherVars>>
    \/ /\ transcript # <<>>
       /\ \E x \in TamperTexts(transcript[1]) : TamperJson(x)
       /\ UNCHANGED <<clientVars, statusVars, otherVars>>
    \/ /\ transcript # <<>>
       /\ \E h \in TamperDigests(transcript[1]) : TamperHash(h)
       /\ UNCHANGED <<clientVars, statusVars, otherVars>>
    \/ Verify /\ UNCHANGED <<clientVars, statusVars, otherVars>>

SpecTranscript == InitTranscript /\ [][NextTranscript]_vars

InitThreads == ClientInit /\ StatusIdle /\ TranscriptIdle /\ OtherIdle

NextThreads ==
    \/ \E t \in ThreadIds : \E c \in ThreadCalls(t) :
            ThreadCall(t, c) /\ UNCHANGED <<callVars, statusVars, transcriptVars, summaryVars, postedVars,
                   singletonVars, canonVars, sessionVars>>
    \/ \E t \in ThreadIds : \E o \in ThreadOutcomes(threads[t].call) :
            ThreadAttempt(t, o) /\ UNCHANGED <<callVars, statusVars, transcriptVars, summaryVars, postedVars,
                   singletonVars, canonVars, sessionVars>>
    \/ \E t \in ThreadIds :
            ThreadFinish(t) /\ UNCHANGED <<callVars, statusVars, transcriptVars, summaryVars, postedVars,
                   singletonVars, canonVars, sessionVars>>

SpecThreads == InitThreads /\ [][NextThreads]_vars

InitLedger == LedgerInit /\ StatusIdle /\ TranscriptIdle /\ OtherIdle

NextLedger ==
    GetSessionReceipts
    /\ UNCHANGED <<clientVars, statusVars, transcriptVars, threadVars, postedVars,
                 singletonVars, canonVars, sessionVars>>

SpecLedger == InitLedger /\ [][NextLedger]_vars

\* a session in which one escrow has succeeded: its receipt is in the ledger
SettledInit ==
    /\ pc = "idle"
    /\ call = NoCall
    /\ attempt = 0
    /\ last_exc = NoExc
    /\ sleeps = <<>>
    /\ attemptLog = <<>>
    /\ helperOut = NoHelperOut
    /\ opOut = NoOpOut
    /\ nCalls = 0
    /\ session_receipts = <<Receipt("esc-1", "task-a", 10)>>
    /\ session_results = <<>>

InitSettled == SettledInit /\ StatusIdle /\ TranscriptIdle /\ OtherIdle

SpecSettled == InitSettled /\ [][Next]_vars

NextKeys ==
    \/ \E c \in KeyCalls :
            Call(c) /\ UNCHANGED <<statusVars, transcriptVars, otherVars>>
    \/ \E t \in KeyOutcomes :
            KeyAttempt(t)
            /\ UNCHANGED <<statusVars, transcriptVars, threadVars, summaryVars,
                         singletonVars, canonVars, sessionVars>>
    \/ Return /\ UNCHANGED <<statusVars, transcriptVars, otherVars>>

SpecKeys == Init /\ [][NextKeys]_vars

NextSingleton ==
    \/ \E k \in ApiKeys, injected \in BOOLEAN :
            Initialize(k, injected)
            /\ UNCHANGED <<clientVars, statusVars, transcriptVars, threadVars,
                           summaryVars, postedVars, canonVars, sessionVars>>
    \/ GetInstance
            /\ UNCHANGED <<clientVars, statusVars, transcriptVars, threadVars,
                           summaryVars, postedVars, canonVars, sessionVars>>
    \/ \E raised \in BOOLEAN :
            ClearInstanceClose(raised)
            /\ UNCHANGED <<clientVars, statusVars, transcriptVars, threadVars,
                           summaryVars, postedVars, canonVars, sessionVars>>
    \/ ClearInstanceAssign
            /\ UNCHANGED <<clientVars, statusVars, transcriptVars, threadVars,
                           summaryVars, postedVars, canonVars, sessionVars>>
    \/ Exit
            /\ UNCHANGED <<clientVars, statusVars, transcriptVars, threadVars,
                           summaryVars, postedVars, canonVars, sessionVars>>

SpecSingleton == Init /\ [][NextSingleton]_vars

InitSnapshot ==
    /\ SnapshotInit /\ StatusIdle /\ TranscriptIdle /\ OtherIdle

NextSnapshot ==
    \/ TakeSummary
            /\ UNCHANGED <<clientVars, statusVars, transcriptVars, threadVars,
                           summaryVars, postedVars, singletonVars, canonVars,
                           exchange, reader>>
    \/ \E k \in 1..Len(held), field \in {"receipts", "results"}, op \in ListEdits :
            MutateReturned(k, field, op)
            /\ UNCHANGED <<callVars, statusVars, transcriptVars, threadVars,
                           summaryVars, postedVars, singletonVars, canonVars,
                           exchange, reader>>

SpecSnapshot == InitSnapshot /\ [][NextSnapshot]_vars

NextExchange ==
    \/ \E c \in ExchangeCalls :
            Call(c)
            /\ UNCHANGED <<statusVars, transcriptVars, otherVars>>
    \/ AttemptLost
            /\ UNCHANGED <<statusVars, transcriptVars, threadVars, summaryVars,
                           postedVars, singletonVars, canonVars, held, lists,
                           mutated, reader>>
    \/ AttemptUnavailable
            /\ UNCHANGED <<statusVars, transcriptVars, threadVars, summaryVars,
                           postedVars, singletonVars, canonVars, held, lists,
                           mutated, reader>>
    \/ \E delivered \in BOOLEAN :
            AttemptServed(delivered)
            /\ UNCHANGED <<statusVars, transcriptVars, threadVars, summaryVars,
                           postedVars, singletonVars, canonVars, held, lists,
                           mutated, reader>>
    \/ Return /\ UNCHANGED <<statusVars, transcriptVars, otherVars>>

SpecExchange == Init /\ [][NextExchange]_vars

NextReader ==
    \/ ReaderCall
            /\ UNCHANGED <<callVars, statusVars, transcriptVars, threadVars,
                           postedVars, singletonVars, canonVars, held, lists,
                           mutated, exchange>>
    \/ ReaderStep
            /\ UNCHANGED <<callVars, statusVars, transcriptVars, threadVars,
                           postedVars, singletonVars, canonVars, held, lists,
                           mutated, exchange>>
    \/ ReaderReturn
            /\ UNCHANGED <<callVars, statusVars, transcriptVars, threadVars,
                           postedVars, singletonVars, canonVars, held, lists,
                           mutated, exchange>>
    \/ OtherEscrowEnds
            /\ UNCHANGED <<callVars, statusVars, transcriptVars, threadVars,
                           postedVars, singletonVars, canonVars, held, lists,
                           mutated, exchange>>
    \/ \E status \in {"released", "cancelled"} :
            OtherSettlementEnds(status)
            /\ UNCHANGED <<callVars, statusVars, transcriptVars, threadVars,
                           postedVars, singletonVars, canonVars, held, lists,
                           mutated, exchange>>

SpecReader == Init /\ [][NextReader]_vars

InitCanon ==
    /\ ClientInit /\ StatusIdle /\ TranscriptIdle
    /\ ThreadsIdle /\ SummaryIdle /\ PostedIdle /\ SingletonInit
    /\ SessionIdle
    /\ CanonInit

NextCanon ==
    \E k \in 1..2 :
        Canonicalize(k)
        /\ UNCHANGED <<clientVars, statusVars, transcriptVars, threadVars,
                       summaryVars, postedVars, singletonVars, sessionVars>>

SpecCanon == InitCanon /\ [][NextCanon]_vars

\* a call in its retry loop goes on: fn() comes back (the HTTP client has a
\* timeout) and time.sleep returns, so the next iteration is always taken
Fairness ==
    WF_vars(\E t \in Outcomes(call) :
                Attempt(t) /\ UNCHANGED <<statusVars, transcriptVars, otherVars>>)

\* a session before the last call it makes, nothing or one escrow settled
LastCallInit ==
    /\ pc = "idle"
    /\ call = NoCall
    /\ attempt = 0
    /\ last_exc = NoExc
    /\ sleeps = <<>>
    /\ attemptLog = <<>>
    /\ helperOut = NoHelperOut
    /\ opOut = NoOpOut
    /\ nCalls = MaxCalls - 1
    /\ session_receipts \in {<<>>, <<Receipt("esc-1", "task-a", 10)>>}
    /\ session_results = <<>>

InitLive == LastCallInit /\ StatusIdle /\ TranscriptIdle /\ OtherIdle

SpecLive == InitLive /\ [][Next]_vars /\ Fairness


(***************************************************************************)
(* Properties of the retry helper (specification Spec).                    *)
(***************************************************************************)
TransportFailure(a) ==
    ~a.ok /\ a.exc[1].type \in {"TimeoutException", "NetworkError"}

\* a 5xx response, or a callable raising A2ANetworkError itself
ServerFailure(a) == ~a.ok /\ a.exc[1].type = "A2ANetworkError"

Transient(a) == TransportFailure(a) \/ ServerFailure(a)

AttemptsMade == Len(attemptLog)

\* C1: with N >= 1 attempts configured and every attempt ending in a
\* transport-level timeout or connection failure, the operation is called
\* exactly N times and the call then fails with NetworkError: the call is not
\* over before the N-th attempt, and there is never an N+1-th attempt.
C1_ExactlyNAttemptsThenNetworkError ==
    /\ pc # "idle" => AttemptsMade <= call.retries
    /\ (pc # "idle" /\ call.retries >= 1
        /\ \A i \in 1..AttemptsMade : TransportFailure(attemptLog[i]))
       => /\ pc = "done" <=> AttemptsMade = call.retries
          /\ pc = "done" =>
                /\ helperOut.status = "raised"
                /\ helperOut.exc[1].type = "A2ANetworkError"
                /\ opOut.kind = "raised"
                /\ opOut.exc[1].type = "A2ANetworkError"

C1_Witness ==
    /\ pc = "done"
    /\ call.name = "escrow"
    /\ AttemptsMade = 3
    /\ \A i \in 1..AttemptsMade : TransportFailure(attemptLog[i])
    /\ opOut.kind = "raised"
    /\ opOut.exc[1].type = "A2ANetworkError"

\* C2: when the first k-1 attempts fail transiently (transport failure or
\* 5xx) and attempt k succeeds, the helper returns attempt k's result after
\* exactly k attempts; no attempt follows a success.
C2_ReturnsFirstSuccess ==
    /\ \A i \in 1..AttemptsMade : attemptLog[i].ok => i = AttemptsMade
    /\ (AttemptsMade >= 1 /\ attemptLog[AttemptsMade].ok)
       => /\ pc = "done"
          /\ \A i \in 1..(AttemptsMade - 1) : Transient(attemptLog[i])
          /\ helperOut.status = "returned"
          /\ helperOut.value = attemptLog[AttemptsMade].value
          /\ helperOut.value.attempt = AttemptsMade
          /\ opOut.kind = "returned" => opOut.value = helperOut.value

C2_Witness ==
    /\ pc = "done"
    /\ call.name = "escrow"
    /\ AttemptsMade = 2
    /\ TransportFailure(attemptLog[1])
    /\ attemptLog[2].ok
    /\ helperOut.status = "returned"
    /\ helperOut.value.attempt = 2
    /\ opOut.kind = "returned"

\* C3: an attempt that ends in a failure other than a transport failure or a
\* 5xx-derived NetworkError ends the helper at once: the helper raises that
\* very exception, no later attempt is made and no backoff wait follows it
\* (the waits are those after the earlier, retried attempts only).
C3_NonTransientPropagatesImmediately ==
    \A i \in 1..AttemptsMade :
        (~attemptLog[i].ok /\ ~Transient(attemptLog[i]))
        => /\ i = AttemptsMade
           /\ pc = "done"
           /\ helperOut.status = "raised"
           /\ helperOut.exc = attemptLog[i].exc
           /\ Len(sleeps) = i - 1

C3_Witness ==
    /\ pc = "done"
    /\ call.name = "release"
    /\ AttemptsMade = 2
    /\ Transient(attemptLog[1])
    /\ attemptLog[2].outcome.status = 422
    /\ helperOut.exc[1].type = "A2AReleaseError"
    /\ helperOut.exc[1].attempt = 2
    /\ opOut.exc = helperOut.exc
    /\ Len(sleeps) = 1

(***************************************************************************)
(* Properties of the status translation.                                   *)
(***************************************************************************)
\* the table of the specification; "none" is no failure
ExpectedFailure(status, operation) ==
    CASE status \in 200..299 -> "none"
      [] status = 401 -> "A2AAuthError"
      [] status = 402 -> "A2AEscrowError"
      [] status = 404 -> "A2ASettlementError"
      [] status = 409 -> "none"
      [] status = 422 ->
            IF operation \in {"release", "cancel"}
            THEN "A2AReleaseError" ELSE "A2AEscrowError"
      [] status \in 500..599 -> "A2ANetworkError"
      [] OTHER -> "A2ASettlementError"

RaisedClass(e) == IF e = NoExc THEN "none" ELSE e[1].type

\* C9: for every HTTP status, _raise_for_status raises the failure the table
\* gives (401 AuthError, 402 EscrowError, 404 SettlementError, 422 ReleaseError
\* for release/cancel and EscrowError otherwise, 5xx NetworkError, any other
\* non-success status but 409 SettlementError) and raises nothing on 2xx.
C9_StatusTable ==
    sOut.done =>
        /\ RaisedClass(sOut.exc) = ExpectedFailure(sIn.status, sIn.operation)
        /\ sOut.exc # NoExc =>
              /\ sOut.exc[1].status = sIn.status
              /\ sOut.exc[1].operation = sIn.operation

C9_Witness ==
    /\ sOut.done
    /\ sIn.status = 422
    /\ sIn.operation = "cancel"
    /\ RaisedClass(sOut.exc) = "A2AReleaseError"

\* C10: a call that receives a 409 response (with a JSON body, as the
\* exchange's error bodies are) completes successfully, without raising and
\* without another attempt.
C10_409CallSucceeds ==
    \A i \in 1..AttemptsMade :
        (/\ attemptLog[i].outcome.kind = "response"
         /\ attemptLog[i].outcome.status = 409
         /\ attemptLog[i].outcome.body # "nonjson")
        => /\ i = AttemptsMade
           /\ pc = "done"
           /\ opOut.kind = "returned"

(***************************************************************************)
(* Properties of the transcript subsystem (specification SpecTranscript).  *)
(***************************************************************************)
BuildOver == tpc \in {"done", "verified"}

\* a forbidden phrase, in some letter case, was put into an entry's message
\* or into the compromise (a key, a value, a value nested in a list in a dict)
ForbiddenInScannedPlace ==
    /\ tIn.inj.forbidden
    /\ tIn.loc.field \in {"message"} \cup CompromiseFields

\* C4 as stated: with a forbidden phrase, in any letter case, in any entry's
\* message or anywhere in the compromise, build_transcript fails with the
\* validation error and returns no transcript.
C4_ForbiddenPhraseRaisesValidationError ==
    (tpc # "idle" /\ ForbiddenInScannedPlace)
    => /\ tpc \in {"validate", "done"}
       /\ transcript = <<>>
       /\ tpc = "done" =>
            /\ tOut.kind = "raised"
            /\ tOut.exc.type = "TranscriptValidationError"

\* C4 as amended: with a forbidden phrase, in any letter case, in any entry's
\* message or anywhere in the compromise, build_transcript fails and returns
\* no transcript; the failure is the validation error when there is at least
\* one entry, and the empty-entries ValueError when there is none.
C4_ForbiddenPhraseFailsBuild ==
    (tpc # "idle" /\ ForbiddenInScannedPlace)
    => /\ tpc \in {"validate", "done"}
       /\ transcript = <<>>
       /\ tpc = "done" =>
            /\ tOut.kind = "raised"
            /\ tIn.entries # <<>> => tOut.exc.type = "TranscriptValidationError"
            /\ tIn.entries = <<>> => tOut.exc = EmptyEntriesError

C4_Witness ==
    /\ tpc = "done"
    /\ Len(tIn.entries) = 2
    /\ tIn.loc = Loc("compromise_nested", 0)
    /\ tIn.inj.forbidden
    /\ tIn.inj.text \notin {FORBIDDEN_PHRASES[k] : k \in 1..Len(FORBIDDEN_PHRASES)}
    /\ tOut.kind = "raised"
    /\ tOut.exc.type = "TranscriptValidationError"
    /\ tOut.exc.source = "compromise"

\* the input passes the guard: no message and no part of the compromise
\* holds a forbidden phrase (in any letter case)
GuardPasses == ~ForbiddenInScannedPlace

\* C5: for a non-empty entry sequence and a compromise that pass the guard,
\* build_transcript returns a transcript whose transcript_hash is the digest
\* of its transcript_json, and verify_transcript succeeds on it.
C5_BuildThenVerifySucceeds ==
    /\ (BuildOver /\ tIn.entries # <<>> /\ GuardPasses)
       => /\ tOut.kind = "returned"
          /\ transcript # <<>>
    /\ (transcript # <<>> /\ tampered = {})
       => /\ transcript[1].transcript_json # <<>>
          /\ transcript[1].transcript_hash
                = hash_transcript(transcript[1].transcript_json)
    /\ (tpc = "verified" /\ tampered = {}) => vOut = <<VerifyOk>>

C5_Witness ==
    /\ tpc = "verified"
    /\ tampered = {}
    /\ Len(tIn.entries) = 2
    /\ tIn.participants = <<>>
    /\ tIn.session_id = <<>>
    /\ vOut = <<VerifyOk>>

\* C6: after the stored text was replaced by a different non-empty text, or
\* the stored digest by a different non-empty digest, verify_transcript
\* fails with the hash mismatch carrying the stored and the recomputed
\* digest; it never succeeds while the stored digest is not the hash of the
\* stored text.
C6_TamperingIsDetected ==
    tpc = "verified" =>
        LET tr == transcript[1]
            computed == hash_transcript(tr.transcript_json) IN
        /\ vOut[1].kind = "ok" => tr.transcript_hash = computed
        /\ (Cardinality(tampered) = 1 /\ tr.transcript_json # <<>>
            /\ tr.transcript_hash # EmptyDigest)
           => vOut[1] = VerifyMismatch(tr.transcript_hash, computed)

C6_Witness ==
    /\ tpc = "verified"
    /\ tampered = {"hash"}
    /\ transcript[1].transcript_hash = ZeroDigest
    /\ vOut[1].kind = "IntegrityError: hash mismatch"
    /\ vOut[1].stored = ZeroDigest
    /\ vOut[1].computed = tLoc.transcript_hash[1]

\* C7: the guard runs before canonicalization and hashing: when it rejects,
\* neither the canonical text nor the hash has been computed, its failure is
\* what build_transcript raises, and no transcript is returned; the text and
\* the hash are computed only for input the guard has passed.
C7_GuardBeforeHashing ==
    /\ (tOut.kind = "raised" /\ tOut.exc.type = "TranscriptValidationError")
       => /\ tLoc.transcript_json = <<>>
          /\ tLoc.transcript_hash = <<>>
          /\ transcript = <<>>
          /\ <<tOut.exc>> = validate_no_execution_authority(tIn.entries,
                                                            tIn.compromise)
    /\ (tLoc.transcript_json # <<>> \/ tLoc.transcript_hash # <<>>
        \/ transcript # <<>>)
       => GuardPasses
    /\ (tpc = "done" /\ ~GuardPasses /\ tIn.entries # <<>>)
       => (tOut.kind = "raised" /\ tOut.exc.type = "TranscriptValidationError")

C7_Witness ==
    /\ tpc = "done"
    /\ tOut.kind = "raised"
    /\ tOut.exc.type = "TranscriptValidationError"
    /\ tOut.exc.source = "entry"
    /\ tOut.exc.index = 1
    /\ tLoc.resolved_session_id # <<>>
    /\ tLoc.transcript_json = <<>>
    /\ tLoc.transcript_hash = <<>>

\* C8: the transcript_json of every transcript build_transcript returns
\* contains no forbidden phrase in any letter case, whatever the speaker,
\* role, timestamp and metadata of the entries, the participants and the
\* session id hold.
C8_TranscriptJsonIsClean ==
    (transcript # <<>> /\ "json" \notin tampered)
    => search(transcript[1].transcript_json) = <<>>

(***************************************************************************)
(* Properties of the client operations and the session ledger.             *)
(***************************************************************************)
\* register_agent, escrow, release, cancel
LedgerOperations == {"register_agent", "escrow", "release", "cancel"}

\* C11: every failure that register_agent, escrow, release or cancel
\* surfaces to its caller is of the settlement-error taxonomy
\* (A2ASettlementError or one of its subclasses), whatever status and body
\* the exchange answered with.
C11_EveryFailureIsTyped ==
    (pc = "done" /\ call.name \in LedgerOperations /\ opOut.kind = "raised")
    => opOut.exc[1].type \in SettlementErrorClasses

\* a call ends in this step
CallEnds == pc # "done" /\ pc' = "done"

LedgerUnchanged == UNCHANGED <<session_receipts, session_results>>

\* C12: the ledger changes if and only if an operation succeeds.  The step
\* in which escrow returns appends exactly one receipt (status "escrowed",
\* the call's task id, payer, payee and amount, the exchange's escrow id);
\* the step in which release or cancel returns appends exactly one result
\* (status "released" / "cancelled", the given escrow id); every other step,
\* a failed attempt that is retried and a call that ends in a failure
\* included, leaves both lists as they are.
C12_LedgerChangesIffSuccess ==
    [][IF CallEnds /\ opOut'.kind = "returned" /\ call'.name = "escrow"
       THEN /\ session_receipts' =
                Append(session_receipts,
                       [escrow_id |-> attemptLog'[Len(attemptLog')].outcome.escrow_id,
                        task_id |-> call'.task_id,
                        payer_address |-> "0xPAYER",
                        payee_address |-> "0xPAYEE",
                        amount |-> call'.amount,
                        status |-> "escrowed"])
            /\ session_results' = session_results
       ELSE IF CallEnds /\ opOut'.kind = "returned"
               /\ call'.name \in {"release", "cancel"}
       THEN /\ session_receipts' = session_receipts
            /\ Len(session_results') = Len(session_results) + 1
            /\ SubSeq(session_results', 1, Len(session_results)) = session_results
            /\ session_results'[Len(session_results')].escrow_id = call'.escrow_id
            /\ session_results'[Len(session_results')].status =
                    (IF call'.name = "release" THEN "released" ELSE "cancelled")
       ELSE LedgerUnchanged]_vars

\* an escrow succeeded, then a cancel failed after exhausting its retries
C12_Witness ==
    /\ pc = "done"
    /\ call.name = "cancel"
    /\ opOut.kind = "raised"
    /\ AttemptsMade = 3
    /\ Len(session_receipts) = 1
    /\ session_receipts[1].status = "escrowed"
    /\ session_results = <<>>

\* a SettlementResult was appended (the list is append-only, see C12)
ResultAppended == session_results' # session_results

\* the result appended by this step belongs to a release (cancel) that
\* returned for the given escrow id, the exchange having answered its last
\* request with one of `statuses`
AppendedBySettlement(statuses) ==
    LET last == attemptLog'[Len(attemptLog')].outcome
        new == session_results'[Len(session_results')] IN
    /\ CallEnds
    /\ call'.name \in {"release", "cancel"}
    /\ opOut'.kind = "returned"
    /\ last.kind = "response"
    /\ last.status \in statuses
    /\ Len(session_results') = Len(session_results) + 1
    /\ new.escrow_id = call'.escrow_id
    /\ new.status = (IF call'.name = "release" THEN "released" ELSE "cancelled")

\* C13 as stated: a result is appended to the ledger only by a release or
\* cancel to which the exchange answered with a success (2xx) response for
\* that escrow id.
C13_ResultOnlyFrom2xx ==
    [][ResultAppended => AppendedBySettlement(200..299)]_vars

\* C13 as amended: a result is appended to the ledger only by a release or
\* cancel that returned successfully for that escrow id, the exchange having
\* answered with a success (2xx) response or with 409, the idempotency
\* collision that the client treats as success.
C13_ResultOnlyFromSuccessfulSettlement ==
    [][ResultAppended => AppendedBySettlement((200..299) \cup {409})]_vars

C13_Witness ==
    /\ pc = "done"
    /\ call.name = "release"
    /\ opOut.kind = "returned"
    /\ attemptLog[AttemptsMade].outcome.status = 409
    /\ Len(session_results) = 1
    /\ session_results[1].escrow_id = call.escrow_id
    /\ session_results[1].status = "released"

(***************************************************************************)
(* Properties of concurrent calls (specification SpecThreads).             *)
(***************************************************************************)
\* thread t's call has returned to its caller
ThreadSucceeded(t) == threads[t].pc = "done" /\ threads[t].out.kind = "returned"

\* the ledger entry the successful call of thread t stands for
ThreadEntry(t) ==
    LET c == threads[t].call
        v == threads[t].out.value IN
    IF c.name = "escrow"
    THEN [escrow_id |-> v.escrow_id, task_id |-> c.task_id,
          payer_address |-> "0xPAYER", payee_address |-> "0xPAYEE",
          amount |-> c.amount, status |-> "escrowed"]
    ELSE [escrow_id |-> c.escrow_id,
          status |-> IF c.name = "release" THEN "released" ELSE "cancelled",
          tx_hash |-> IF v.body = "full" THEN "0xTX" ELSE ""]

Occurrences(seq, e) == Cardinality({i \in 1..Len(seq) : seq[i] = e})

\* C14: with several threads running escrow, release and cancel on one
\* client, in every interleaving of their steps the ledger holds exactly one
\* entry per call that has succeeded so far: K successful calls, K entries,
\* each entry as often as there are successful calls that stand for it (none
\* lost, none duplicated, none corrupted).
C14_ConcurrentAppendsAllKept ==
    LET ok == {t \in ThreadIds : ThreadSucceeded(t)}
        escrows == {t \in ok : threads[t].call.name = "escrow"}
        settlements == ok \ escrows IN
    /\ Len(session_receipts) = Cardinality(escrows)
    /\ Len(session_results) = Cardinality(settlements)
    /\ \A t \in escrows :
          Occurrences(session_receipts, ThreadEntry(t))
            = Cardinality({u \in escrows : ThreadEntry(u) = ThreadEntry(t)})
    /\ \A t \in settlements :
          Occurrences(session_results, ThreadEntry(t))
            = Cardinality({u \in settlements : ThreadEntry(u) = ThreadEntry(t)})

\* two threads' calls overlapped (both were inside their operation at once)
\* and both succeeded: an escrow after a retry, and a cancel
C14_Witness ==
    /\ ThreadSucceeded(1)
    /\ ThreadSucceeded(2)
    /\ threads[1].call.name = "escrow"
    /\ threads[1].out.value.attempt = 2
    /\ threads[2].call.name = "cancel"
    /\ Len(session_receipts) = 1
    /\ Len(session_results) = 1

\* C15: when release(id) (cancel(id)) succeeds, every ledger receipt with
\* escrow id `id` has status "released" ("cancelled") from then on: the
\* receipt's status is updated in place by the settlement.
C15_SettlementUpdatesReceiptStatus ==
    [][(CallEnds /\ opOut'.kind = "returned"
        /\ call'.name \in {"release", "cancel"})
       => \A i \in 1..Len(session_receipts') :
            session_receipts'[i].escrow_id = call'.escrow_id
            => session_receipts'[i].status =
                    (IF call'.name = "release" THEN "released" ELSE "cancelled")]_vars

(***************************************************************************)
(* Properties of the session summary (specification SpecLedger).           *)
(***************************************************************************)
\* the sum of the amounts of the receipts at the indices I
RECURSIVE AmountAt(_, _)
AmountAt(receipts, I) ==
    IF I = {} THEN 0
    ELSE LET i == CHOOSE x \in I : TRUE IN
         receipts[i].amount + AmountAt(receipts, I \ {i})

\* escrows of 10, 20 and 5; the first two released, the third cancelled
ThreeEscrows ==
    /\ session_receipts = <<Receipt("esc-1", "task-a", 10),
                            Receipt("esc-2", "task-b", 20),
                            Receipt("esc-3", "task-c", 5)>>
    /\ session_results = <<Result("esc-1", "released"),
                           Result("esc-2", "released"),
                           Result("esc-3", "cancelled")>>

\* C16: get_session_receipts reports total_escrowed = the sum of all receipt
\* amounts, total_released = the sum of the amounts of the receipts whose
\* escrow id is among the released results, total_cancelled = total_escrowed
\* - total_released and cancelled_count = the number of cancelled results;
\* escrows of 10, 20, 5 with the first two released and the third cancelled
\* give 35, 30, 5 and 1.
C16_SessionSummaryAggregates ==
    summary # <<>> =>
        LET s == summary[1]
            all == 1..Len(session_receipts)
            released == {i \in all :
                            \E j \in 1..Len(session_results) :
                                /\ session_results[j].status = "released"
                                /\ session_results[j].escrow_id
                                        = session_receipts[i].escrow_id} IN
        /\ s.total_escrowed = AmountAt(session_receipts, all)
        /\ s.total_released = AmountAt(session_receipts, released)
        /\ s.total_cancelled = s.total_escrowed - s.total_released
        /\ s.cancelled_count =
                Cardinality({j \in 1..Len(session_results) :
                                session_results[j].status = "cancelled"})
        /\ s.receipts = session_receipts
        /\ s.results = session_results
        /\ ThreeEscrows =>
                /\ s.total_escrowed = 35
                /\ s.total_released = 30
                /\ s.total_cancelled = 5
                /\ s.cancelled_count = 1

C16_Witness ==
    /\ ThreeEscrows
    /\ summary # <<>>
    /\ summary[1].total_escrowed = 35
    /\ summary[1].total_released = 30
    /\ summary[1].total_cancelled = 5
    /\ summary[1].cancelled_count = 1

(***************************************************************************)
(* Properties of a repeated release (specification SpecSettled).           *)
(***************************************************************************)
\* the indices of the released results for the escrow eid
ReleasedResults(results, eid) ==
    {j \in 1..Len(results) :
        results[j].escrow_id = eid /\ results[j].status = "released"}

\* the call ending in this step is a release of an escrow whose one earlier
\* release succeeded, and the exchange answers it with 422 or 404
SecondReleaseRejected ==
    /\ CallEnds
    /\ call'.name = "release"
    /\ Cardinality(ReleasedResults(session_results, call'.escrow_id)) = 1
    /\ LET last == attemptLog'[Len(attemptLog')].outcome IN
       last.kind = "response" /\ last.status \in {422, 404}

\* C17: when release is called again for an escrow id whose first release
\* succeeded and the exchange answers 422 or 404, the second call fails with
\* a typed error and appends nothing: the ledger still holds exactly one
\* released result for the id and total_released counts its amount once.
C17_SecondReleaseFailsAndAppendsNothing ==
    [][SecondReleaseRejected =>
        LET eid == call'.escrow_id
            before == get_session_receipts(session_receipts, session_results)
            after == get_session_receipts(session_receipts', session_results')
            mine == {i \in 1..Len(session_receipts') :
                        session_receipts'[i].escrow_id = eid}
            others == {i \in 1..Len(session_receipts') :
                        /\ session_receipts'[i].escrow_id # eid
                        /\ ReleasedResults(session_results',
                                session_receipts'[i].escrow_id) # {}} IN
        /\ opOut'.kind = "raised"
        /\ opOut'.exc[1].type \in {"A2AReleaseError", "A2ASettlementError"}
        /\ opOut'.exc[1].status \in {422, 404}
        /\ session_results' = session_results
        /\ session_receipts' = session_receipts
        /\ Cardinality(ReleasedResults(session_results', eid)) = 1
        /\ after.total_released = before.total_released
        /\ after.total_released = AmountAt(session_receipts', mine)
                                    + AmountAt(session_receipts', others)]_vars

\* the second release of esc-1 was rejected: one released result, 10 released
C17_Witness ==
    /\ pc = "done"
    /\ call.name = "release"
    /\ call.escrow_id = "esc-1"
    /\ opOut.kind = "raised"
    /\ opOut.exc[1].type = "A2AReleaseError"
    /\ opOut.exc[1].status = 422
    /\ session_receipts = <<Receipt("esc-1", "task-a", 10)>>
    /\ session_results = <<Result("esc-1", "released")>>
    /\ get_session_receipts(session_receipts, session_results).total_released = 10

(***************************************************************************)
(* Properties of the idempotency key (specification SpecKeys).             *)
(***************************************************************************)
NoKeyPassed(p) == p.passed = "None"

\* every request of the same call arguments carries one key, and without a
\* key passed the key tells the task ids apart and nothing else
KeyFollowsTask ==
    /\ \A p, q \in posted :
            (p.task_id = q.task_id /\ p.passed = q.passed) => p.key = q.key
    /\ \A p, q \in posted :
            (NoKeyPassed(p) /\ NoKeyPassed(q)) =>
                (p.task_id = q.task_id <=> p.key = q.key)

\* C18 as stated: without a key passed the key sent is a function of the
\* task id alone (the same on every attempt of every call for the task,
\* different for different tasks), and every explicitly passed key is sent
\* verbatim.
C18_ExplicitKeyVerbatim ==
    /\ KeyFollowsTask
    /\ \A p \in posted : ~NoKeyPassed(p) => p.key = p.passed

\* C18 as the code has it: without a key passed the key sent is a function
\* of the task id alone, every non-empty key passed is sent verbatim, and an
\* empty key passed is replaced by the key of the task, as if none had been
\* passed.
C18_NonEmptyKeyVerbatim ==
    /\ KeyFollowsTask
    /\ \A p \in posted :
            (~NoKeyPassed(p) /\ p.passed # "") => p.key = p.passed
    /\ \A p, q \in posted :
            (p.passed = "" /\ NoKeyPassed(q) /\ p.task_id = q.task_id)
                => p.key = q.key
    /\ \A p \in posted : p.passed = "" => p.key # ""

\* an escrow with an empty key passed, on its retry, after an escrow of the
\* same task with no key passed: one key for both
C18_Witness ==
    /\ pc = "running"
    /\ call.name = "escrow"
    /\ call.idempotency_key = ""
    /\ Len(attemptLog) >= 2
    /\ Request(call) \in posted
    /\ Request(call).key = "task-" \o call.task_id
    /\ \E q \in posted :
            NoKeyPassed(q) /\ q.task_id = call.task_id /\ q.key = Request(call).key

(***************************************************************************)
(* Properties of the singleton lifecycle (specification SpecSingleton).    *)
(***************************************************************************)
SuccessfulInitialize(e) == e.op = "initialize" /\ e.kind = "returned"

\* the instance that is active after the completed calls h: the one returned
\* by the last successful initialize, unless a reset was completed since
RECURSIVE ActiveAfter(_)
ActiveAfter(h) ==
    IF h = <<>> THEN NoInstance
    ELSE LET e == h[Len(h)] IN
         IF SuccessfulInitialize(e) THEN e.value
         ELSE IF e.op = "clear_instance" THEN NoInstance
         ELSE ActiveAfter(SubSeq(h, 1, Len(h) - 1))

ResetStep == lpc' # lpc

\* the instance the reset in progress, or just completed, was called on
ResetTarget ==
    IF lpc # "idle" THEN ActiveAfter(lifecycle)
    ELSE IF lifecycle # <<>> /\ lifecycle[Len(lifecycle)].op = "clear_instance"
    THEN ActiveAfter(SubSeq(lifecycle, 1, Len(lifecycle) - 1))
    ELSE NoInstance

ResetCompleted ==
    /\ lpc = "idle"
    /\ lifecycle # <<>>
    /\ lifecycle[Len(lifecycle)].op = "clear_instance"

C21_SettlementFailsWithReleaseError ==
    (pc = "done" /\ call.name \in {"release", "cancel"} /\ opOut.kind = "raised")
    => /\ opOut.exc[1].type \in {"A2AReleaseError", "A2ANetworkError"}
       /\ (attemptLog[Len(attemptLog)].outcome.kind = "response"
           /\ attemptLog[Len(attemptLog)].outcome.status \in {404, 422})
            => opOut.exc[1].type = "A2AReleaseError"

(***************************************************************************)
(* Properties of _with_retries: cause, waits, termination (Spec).          *)
(***************************************************************************)
\* the call has ended by exhaustion: all its N >= 1 attempts failed transiently
Exhausted ==
    /\ pc = "done"
    /\ call.retries >= 1
    /\ AttemptsMade = call.retries
    /\ \A k \in 1..AttemptsMade : Transient(attemptLog[k])

\* C22: when _with_retries fails by exhaustion after N >= 1 attempts, the
\* A2ANetworkError it raises has as its cause the exception of the N-th
\* attempt: not the exception of an earlier attempt and not an empty cause.
C22_ExhaustionKeepsLastCause ==
    Exhausted =>
        LET e == helperOut.exc[1]
            N == AttemptsMade IN
        /\ helperOut.status = "raised"
        /\ e.type = "A2ANetworkError"
        /\ e.cause # NoExc
        /\ e.cause = attemptLog[N].exc
        /\ e.cause[1].attempt = N
        /\ \A k \in 1..(N - 1) : e.cause # attemptLog[k].exc
        /\ opOut.kind = "raised"
        /\ opOut.exc[1].cause = attemptLog[N].exc

\* three attempts failing in three ways; the cause is the third failure
C22_Witness ==
    /\ Exhausted
    /\ AttemptsMade = 3
    /\ attemptLog[1].outcome = Raises("TimeoutException")
    /\ attemptLog[2].outcome = Raises("NetworkError")
    /\ attemptLog[3].outcome.kind = "response"
    /\ attemptLog[3].outcome.status = 500
    /\ helperOut.exc[1].cause[1].type = "A2ANetworkError"
    /\ helperOut.exc[1].cause[1].status = 500
    /\ helperOut.exc[1].cause[1].attempt = 3

\* b, 2b, 4b, ...: the k-th term of the doubling sequence that starts at b
RECURSIVE Doubling(_, _)
Doubling(b, k) == IF k = 1 THEN b ELSE 2 * Doubling(b, k - 1)

\* C23: with base delay b and N attempts, the wait after the failed attempt
\* k (1 <= k < N) is b * 2^(k-1): an exhausted call has waited exactly N-1
\* times, b, 2b, 4b, ... in that order (2 then 4 for b = 2, N = 3); no wait
\* follows the final failed attempt, a successful attempt or a failure that
\* is not retried.
C23_BackoffDoubles ==
    pc # "idle" =>
        /\ \A k \in 1..Len(sleeps) : sleeps[k] = Doubling(call.backoff, k)
        \* one wait per attempt while the loop goes on, none after the end
        /\ pc = "running" => Len(sleeps) = AttemptsMade
        /\ (pc = "done" /\ AttemptsMade >= 1) => Len(sleeps) = AttemptsMade - 1
        /\ Exhausted => Len(sleeps) = call.retries - 1
        /\ (Exhausted /\ call.backoff = 2 /\ call.retries = 3) => sleeps = <<2, 4>>

\* b = 2, N = 3, exhausted: waits of 2 and 4
C23_Witness ==
    /\ Exhausted
    /\ call.name = "helper"
    /\ call.backoff = 2
    /\ call.retries = 3
    /\ sleeps = <<2, 4>>

\* how the retry sequence of the call has ended
EndedInSuccess ==
    /\ helperOut.status = "returned"
    /\ AttemptsMade >= 1
    /\ attemptLog[AttemptsMade].ok

EndedInNonRetryableFailure ==
    /\ helperOut.status = "raised"
    /\ AttemptsMade >= 1
    /\ ~attemptLog[AttemptsMade].ok
    /\ ~Transient(attemptLog[AttemptsMade])
    /\ helperOut.exc = attemptLog[AttemptsMade].exc

EndedInExhaustion ==
    /\ helperOut.status = "raised"
    /\ helperOut.exc[1].type = "A2ANetworkError"
    /\ AttemptsMade = call.retries
    /\ \A k \in 1..AttemptsMade : Transient(attemptLog[k])

\* C24: every invocation terminates.  A retry sequence once started is never
\* abandoned midway (from inside the loop the only step is the next attempt
\* of the same call), never makes more than N attempts, ends in success, in
\* a non-retryable failure or in exhaustion, and always reaches its end.
C24_EveryCallTerminates ==
    /\ [](pc # "idle" => AttemptsMade <= call.retries)
    /\ [](pc = "done" =>
            EndedInSuccess \/ EndedInNonRetryableFailure \/ EndedInExhaustion)
    /\ [][pc = "running" =>
            /\ pc' \in {"running", "done"}
            /\ call' = call
            /\ Len(attemptLog') = AttemptsMade + 1]_vars
    /\ (pc = "running") ~> (pc = "done")

\* a call that used all its attempts and ended
C24_Witness ==
    /\ pc = "done"
    /\ call.name = "release"
    /\ AttemptsMade = call.retries
    /\ EndedInExhaustion

(***************************************************************************)
(* Properties of canonicalization (specification SpecCanon).               *)
(***************************************************************************)
\* a == b for two JSON values: mappings are equal when they hold the same
\* keys with equal values, in whatever order the keys were inserted
RECURSIVE JEqual(_, _)
JEqual(a, b) ==
    /\ a.t = b.t
    /\ CASE a.t = "str" -> a.s = b.s
         [] a.t = "num" -> a.n = b.n
         [] a.t = "list" ->
                /\ Len(a.items) = Len(b.items)
                /\ \A i \in 1..Len(a.items) : JEqual(a.items[i], b.items[i])
         [] a.t = "dict" ->
                /\ Len(a.items) = Len(b.items)
                /\ \A i \in 1..Len(a.items) :
                    \E j \in 1..Len(b.items) :
                        /\ a.items[i][1] = b.items[j][1]
                        /\ JEqual(a.items[i][2], b.items[j][2])

MetadataEqual(m, n) ==
    IF m = <<>> \/ n = <<>> THEN m = n ELSE JEqual(m[1], n[1])

EntryEqual(e, f) ==
    /\ e.speaker = f.speaker
    /\ e.role = f.role
    /\ e.message = f.message
    /\ e.timestamp = f.timestamp
    /\ MetadataEqual(e.metadata, f.metadata)

\* the two inputs are equal argument by argument
InputsEqual(x, y) ==
    /\ Len(x.entries) = Len(y.entries)
    /\ \A i \in 1..Len(x.entries) : EntryEqual(x.entries[i], y.entries[i])
    /\ JEqual(x.compromise, y.compromise)
    /\ x.participants = y.participants
    /\ x.session_id = y.session_id
    /\ x.created_at = y.created_at

BothCanonicalized == canonOut[1] # <<>> /\ canonOut[2] # <<>>

\* C25: canonicalization is deterministic: two invocations on equal
\* (entries, compromise, participants, session_id, created_at), also when
\* equal compromise or metadata mappings were built with different key
\* insertion order, give the same canonical text and the same digest.
C25_EqualInputsSameTextAndDigest ==
    (BothCanonicalized /\ InputsEqual(canonIn[1], canonIn[2])) =>
        /\ canonOut[1][1].transcript_json = canonOut[2][1].transcript_json
        /\ canonOut[1][1].transcript_hash = canonOut[2][1].transcript_hash
        /\ canonOut[1][1].transcript_hash
                = hash_transcript(canonOut[2][1].transcript_json)

\* equal mappings inserted in different orders, one text
C25_Witness ==
    /\ BothCanonicalized
    /\ InputsEqual(canonIn[1], canonIn[2])
    /\ canonIn[1].compromise # canonIn[2].compromise
    /\ canonOut[1] = canonOut[2]

\* C26 as stated: two inputs that differ in any field (an entry's speaker,
\* role, message, timestamp or metadata, the compromise, the participants,
\* the session id or created_at) never yield the same transcript_json and
\* transcript_hash.
C26_AnyFieldChangeChangesDigest ==
    (BothCanonicalized /\ ~InputsEqual(canonIn[1], canonIn[2])) =>
        /\ canonOut[1][1].transcript_json # canonOut[2][1].transcript_json
        /\ canonOut[1][1].transcript_hash # canonOut[2][1].transcript_hash

\* how often p occurs in the sequence ps
Count(ps, p) == Cardinality({i \in 1..Len(ps) : ps[i] = p})

\* absent metadata and an empty mapping are the same metadata
SameMetadata(m, n) ==
    LET Empty(d) == d = <<>> \/ d[1].items = <<>> IN
    IF Empty(m) \/ Empty(n) THEN Empty(m) /\ Empty(n) ELSE JEqual(m[1], n[1])

\* the two inputs are equal but for the order of the participants and for
\* absent metadata standing for empty metadata
SameContent(x, y) ==
    /\ Len(x.entries) = Len(y.entries)
    /\ \A i \in 1..Len(x.entries) :
        /\ x.entries[i].speaker = y.entries[i].speaker
        /\ x.entries[i].role = y.entries[i].role
        /\ x.entries[i].message = y.entries[i].message
        /\ x.entries[i].timestamp = y.entries[i].timestamp
        /\ SameMetadata(x.entries[i].metadata, y.entries[i].metadata)
    /\ JEqual(x.compromise, y.compromise)
    /\ \A i \in 1..Len(x.participants) :
        Count(x.participants, x.participants[i])
            = Count(y.participants, x.participants[i])
    /\ Len(x.participants) = Len(y.participants)
    /\ x.session_id = y.session_id
    /\ x.created_at = y.created_at

\* C26 as the code has it: two inputs yield the same transcript_json, and
\* the same transcript_hash, exactly when they have the same content, that
\* is when they are equal but for the order in which the participants are
\* listed and for absent metadata in place of empty metadata; every other
\* change of a field, down to one character of one message, changes both.
C26_ContentChangeChangesDigest ==
    BothCanonicalized =>
        /\ canonOut[1][1].transcript_json = canonOut[2][1].transcript_json
            <=> SameContent(canonIn[1], canonIn[2])
        /\ canonOut[1][1].transcript_hash = canonOut[2][1].transcript_hash
            <=> SameContent(canonIn[1], canonIn[2])

\* one character of the first message changed: another text, another digest
C26_Witness ==
    /\ BothCanonicalized
    /\ canonIn[2] =
        [canonIn[1] EXCEPT !.entries[1].message = OneCharChanged(@)]
    /\ canonOut[1][1].transcript_json # canonOut[2][1].transcript_json
    /\ canonOut[1][1].transcript_hash # canonOut[2][1].transcript_hash

\* the least position at which pat occurs in text, 0 when it does not
Find(text, pat) ==
    LET at == {i \in 1..(Len(text) - Len(pat) + 1) :
                \A j \in 1..Len(pat) : text[i + j - 1] = pat[j]} IN
    IF at = {} THEN 0 ELSE CHOOSE i \in at : \A j \in at : i <= j

\* the entry e as it stands in a canonical text
EntryText(e) == dumps(entry_dict(e), TRUE)

\* the participants ps listed in ascending order
Ascending(ps) ==
    CHOOSE q \in [1..Len(ps) -> {ps[i] : i \in 1..Len(ps)}] :
        /\ \A i \in 1..Len(ps) : Count(q, ps[i]) = Count(ps, ps[i])
        /\ \A i, j \in 1..Len(ps) : i < j => ~StrLess(q[j], q[i])

\* in the text of invocation k the entries stand in the order of the input
\* and the participants in ascending order
EntriesInInputOrder(k) ==
    LET x == canonIn[k]
        text == canonOut[k][1].transcript_json IN
    /\ \A i \in 1..Len(x.entries) : Find(text, EntryText(x.entries[i])) > 0
    /\ \A i, j \in 1..Len(x.entries) :
        i < j => Find(text, EntryText(x.entries[i]))
                    < Find(text, EntryText(x.entries[j]))
    /\ Find(text, quote(K_participants) \o <<":", " ">>
                  \o dumps(JList([i \in 1..Len(x.participants) |->
                                    JStr(Ascending(x.participants)[i])]), TRUE)) > 0

\* C27: the canonical text lists the entries in exactly the order of the
\* input sequence, whatever that order is (never sorted by timestamp,
\* speaker or anything else), whereas the participants are emitted sorted;
\* two inputs that differ only in the order of their entries yield
\* different texts.
C27_EntryOrderPreserved ==
    /\ \A k \in 1..2 : canonOut[k] # <<>> => EntriesInInputOrder(k)
    /\ (/\ BothCanonicalized
        /\ Len(canonIn[1].entries) >= 2
        /\ canonIn[2] = [canonIn[1] EXCEPT !.entries = Reversed(@)])
        => canonOut[1][1].transcript_json # canonOut[2][1].transcript_json

\* entries given against the order of their timestamps and speakers, and
\* participants given unsorted: the text keeps the former and sorts the latter
C27_Witness ==
    /\ BothCanonicalized
    /\ Len(canonIn[1].entries) >= 2
    /\ StrLess(canonIn[1].entries[2].timestamp, canonIn[1].entries[1].timestamp)
    /\ canonIn[1].participants = <<S_Seller, S_Buyer>>
    /\ canonIn[2] = [canonIn[1] EXCEPT !.entries = Reversed(@)]
    /\ EntriesInInputOrder(1)
    /\ EntriesInInputOrder(2)
    /\ canonOut[1][1].transcript_json # canonOut[2][1].transcript_json

(***************************************************************************)
(* Properties of build_transcript: metadata and participants               *)
(* (specification SpecTranscript).                                         *)
(***************************************************************************)
\* a forbidden phrase was put into the metadata of an entry and nowhere else
ForbiddenOnlyInMetadata ==
    /\ tIn.inj.forbidden
    /\ tIn.loc.field = "metadata"
    /\ tIn.entries # <<>>
    /\ search(dumps(tIn.entries[tIn.loc.idx].metadata[1], FALSE)) # <<>>
    /\ \A i \in 1..Len(tIn.entries) : search(tIn.entries[i].message) = <<>>
    /\ search(dumps(tIn.compromise, FALSE)) = <<>>

\* C28: a forbidden phrase that occurs only in an entry's metadata, all
\* messages and the compromise being clean, does not block construction:
\* build_transcript never raises, returns a transcript, and the transcript
\* verifies.
C28_MetadataIsNotScanned ==
    ForbiddenOnlyInMetadata =>
        /\ tOut.kind # "raised"
        /\ BuildOver =>
            /\ tOut.kind = "returned"
            /\ transcript # <<>>
            /\ transcript[1].entries = tIn.entries
        /\ (tpc = "verified" /\ tampered = {}) => vOut = <<VerifyOk>>

\* built with "Settlement Approved" in the metadata, and verified
C28_Witness ==
    /\ ForbiddenOnlyInMetadata
    /\ tIn.inj.text = FORBIDDEN_PHRASES[1]
    /\ tpc = "verified"
    /\ tampered = {}
    /\ tOut.kind = "returned"
    /\ vOut = <<VerifyOk>>

\* the sequence ps lists exactly the members of the set S, each once, in
\* ascending order
SortedSequenceOf(ps, S) ==
    /\ {ps[i] : i \in 1..Len(ps)} = S
    /\ \A i, j \in 1..Len(ps) : i < j => StrLess(ps[i], ps[j])

Speakers(entries) == {entries[i].speaker : i \in 1..Len(entries)}

\* C29: when participants is omitted, the participants of the transcript
\* built are the distinct speakers of the entries in ascending order, each
\* speaker once however many turns it has.
C29_ParticipantsInferredFromSpeakers ==
    (transcript # <<>> /\ tIn.participants = <<>>) =>
        /\ SortedSequenceOf(transcript[1].participants, Speakers(tIn.entries))
        /\ Len(transcript[1].participants) = Cardinality(Speakers(tIn.entries))

\* two turns, Seller before Buyer; and the participants are Buyer, Seller
C29_Witness ==
    /\ transcript # <<>>
    /\ tIn.participants = <<>>
    /\ Len(tIn.entries) = 2
    /\ tIn.entries[1].speaker = S_Seller
    /\ tIn.entries[2].speaker = S_Buyer
    /\ transcript[1].participants = <<S_Buyer, S_Seller>>

\* C30: in every transcript built, participants is the sorted sequence of a
\* set, strictly ascending with no identifier repeated, whether inferred or
\* supplied by the caller in any order or with repetitions; and when the
\* caller supplies participants, the stored sequence holds exactly the
\* identifiers supplied.
C30_ParticipantsAreASortedSet ==
    transcript # <<>> =>
        LET ps == transcript[1].participants IN
        /\ \A i, j \in 1..Len(ps) : i < j => StrLess(ps[i], ps[j])
        /\ (tIn.participants # <<>> /\ tIn.participants[1] # <<>>) =>
                {ps[i] : i \in 1..Len(ps)}
                    = {tIn.participants[1][i] : i \in 1..Len(tIn.participants[1])}

\* the stored canonical text or the stored digest is empty or absent
MissingData(tr) ==
    tr.transcript_json = <<>> \/ tr.transcript_hash = EmptyDigest

\* C31: verify_transcript of a transcript whose stored canonical text or
\* stored digest is empty or absent fails with the missing-data
\* IntegrityError, never with success and never with a hash mismatch.
C31_MissingDataBeforeComparison ==
    (vOut # <<>> /\ MissingData(transcript[1])) =>
        /\ vOut[1] = VerifyMissing
        /\ vOut[1].kind # "ok"
        /\ vOut[1].kind # "IntegrityError: hash mismatch"

\* a transcript whose digest was emptied, its text kept: the hash of the text
\* differs from the stored digest, and the failure is the missing-data one
C31_Witness ==
    /\ vOut = <<VerifyMissing>>
    /\ transcript[1].transcript_json # <<>>
    /\ transcript[1].transcript_hash = EmptyDigest
    /\ hash_transcript(transcript[1].transcript_json)
            # transcript[1].transcript_hash

\* C32: a build_transcript call with no entries fails with the
\* empty-negotiation error and returns no transcript, whatever the
\* compromise, the participants and the session id are.
C32_EmptyEntriesFail ==
    (tpc # "idle" /\ tIn.entries = <<>>) =>
        /\ tpc = "done"
        /\ tOut = [kind |-> "raised", exc |-> EmptyEntriesError]
        /\ transcript = <<>>
        /\ tLoc = NoLocals

\* no entries and a forbidden phrase in the compromise, participants and
\* session id supplied: the failure is still the empty-negotiation one
C32_Witness ==
    /\ tpc = "done"
    /\ tIn.entries = <<>>
    /\ tIn.inj.forbidden
    /\ tIn.loc.field = "compromise_value"
    /\ tIn.participants # <<>>
    /\ tIn.session_id # <<>>
    /\ tOut.exc = EmptyEntriesError

\* this step completes an initialize call
InitializeStep ==
    /\ Len(lifecycle') = Len(lifecycle) + 1
    /\ lifecycle'[Len(lifecycle')].op = "initialize"

\* C33: initialize with an empty API key fails with AuthError, constructs
\* and stores no instance and leaves the singleton reference as it was: no
\* client is ever constructed with an empty key, and an initialize that does
\* not construct one raises A2AAuthError with _instance and every existing
\* client (its connection included) unchanged.
C33_EmptyKeyInitializeChangesNothing ==
    /\ [](\A i \in 1..Len(clients) : clients[i].api_key # "")
    /\ [][InitializeStep =>
            LET out == lifecycle'[Len(lifecycle')] IN
            \/ /\ out.kind = "returned"
               /\ Len(clients') = Len(clients) + 1
            \/ /\ out = LifecycleRaise("initialize", "A2AAuthError")
               /\ UNCHANGED <<instance, clients>>]_vars

\* a failed initialize after a successful one: the first instance is still
\* the active one, with its connection open
C33_Witness ==
    /\ Len(lifecycle) = 2
    /\ SuccessfulInitialize(lifecycle[1])
    /\ lifecycle[2] = LifecycleRaise("initialize", "A2AAuthError")
    /\ instance = lifecycle[1].value
    /\ Len(clients) = 1
    /\ clients[instance].http = "open"

(***************************************************************************)
(* Properties of the summary's collections (specification SpecSnapshot).   *)
(***************************************************************************)
\* the caller changes a list it was handed
MutateStep == mutated' # mutated

\* neither collection of the summary was changed by the caller
Untouched(s) ==
    /\ <<"receipts", s.receipts>> \notin mutated
    /\ <<"results", s.results>> \notin mutated

\* C34: get_session_receipts returns a snapshot: the caller's adding,
\* removing or clearing elements of a returned collection changes neither
\* the client's ledger nor the summary of any other call, which goes on to
\* hold the ledger and its aggregates.
C34_SummaryIsASnapshot ==
    /\ [][MutateStep => UNCHANGED <<session_receipts, session_results>>]_vars
    /\ [](\A k \in 1..Len(held) :
            Untouched(held[k]) =>
                LET s == get_session_receipts(session_receipts, session_results) IN
                /\ ReceiptsOf(held[k]) = session_receipts
                /\ ResultsOf(held[k]) = session_results
                /\ held[k].total_escrowed = s.total_escrowed
                /\ held[k].total_released = s.total_released
                /\ held[k].cancelled_count = s.cancelled_count)

\* the receipts of the first summary were cleared, then a second summary was
\* taken: it lists the receipt, which is still in the ledger
C34_Witness ==
    /\ Len(held) = 2
    /\ ReceiptsOf(held[1]) = <<>>
    /\ <<"receipts", held[1].receipts>> \in held[2].after
    /\ Len(session_receipts) = 1
    /\ ReceiptsOf(held[2]) = session_receipts

\* a forbidden phrase, in some letter case, stands in text at position i
ForbiddenAt(text, i) ==
    \E k \in 1..Len(FORBIDDEN_PHRASES) :
        LET p == FORBIDDEN_PHRASES[k] IN
        /\ i + Len(p) - 1 <= Len(text)
        /\ \A j \in 1..Len(p) : Fold[text[i + j - 1]] = Fold[p[j]]

Offends(text) == \E i \in 1..Len(text) : ForbiddenAt(text, i)

\* phrase is the leftmost forbidden phrase of text, spelled as in text
LeftmostIn(phrase, text) ==
    \E i \in 1..Len(text) :
        /\ ForbiddenAt(text, i)
        /\ \A j \in 1..(i - 1) : ~ForbiddenAt(text, j)
        /\ phrase = SubSeq(text, i, i + Len(phrase) - 1)
        /\ \E k \in 1..Len(FORBIDDEN_PHRASES) :
                /\ Len(phrase) = Len(FORBIDDEN_PHRASES[k])
                /\ \A j \in 1..Len(phrase) :
                        Fold[phrase[j]] = Fold[FORBIDDEN_PHRASES[k][j]]

OffendingEntries == {i \in 1..Len(tIn.entries) : Offends(tIn.entries[i].message)}

\* C35: the guard reports the first match in scan order: when an entry's
\* message holds a forbidden phrase the failure names the lowest such entry
\* (its index, counted from 0, and its speaker) and the phrase as it stands
\* in that message, whatever later entries and the compromise hold; the
\* compromise is named only when no entry's message holds one.
C35_FirstMatchInScanOrder ==
    (tpc = "done" /\ tIn.entries # <<>>) =>
        /\ OffendingEntries # {} =>
            /\ tOut.kind = "raised"
            /\ tOut.exc.type = "TranscriptValidationError"
            /\ tOut.exc.source = "entry"
            /\ tOut.exc.index + 1 \in OffendingEntries
            /\ \A i \in OffendingEntries : tOut.exc.index + 1 <= i
            /\ tOut.exc.speaker = tIn.entries[tOut.exc.index + 1].speaker
            /\ LeftmostIn(tOut.exc.phrase, tIn.entries[tOut.exc.index + 1].message)
        /\ (tOut.kind = "raised" /\ tOut.exc.source = "compromise") =>
            /\ OffendingEntries = {}
            /\ LeftmostIn(tOut.exc.phrase, dumps(tIn.compromise, FALSE))

\* both entries and the compromise hold a phrase, the second entry two of
\* them: the failure names entry 0, its speaker and its phrase
C35_Witness ==
    /\ tpc = "done"
    /\ OffendingEntries = {1, 2}
    /\ tIn.entries[2].message
            = Cased(4, "upper") \o <<" ">> \o Cased(2, "lower")
    /\ Offends(dumps(tIn.compromise, FALSE))
    /\ tOut.kind = "raised"
    /\ tOut.exc = ValidationError("entry", 0, S_Buyer, Cased(1, "alternate"))

(***************************************************************************)
(* Properties of the client against the exchange (specification            *)
(* SpecExchange).                                                          *)
(***************************************************************************)
Settled(e) == e.status \in {"released", "cancelled"}

HasResult(id) ==
    \E i \in 1..Len(session_results) : session_results[i].escrow_id = id

\* C36: retrying is safe for settlement: once a release or cancel call has
\* ended, every escrow the exchange has settled has a result in the client's
\* ledger; a call that ended in failure settled nothing, also when the
\* exchange applied an attempt whose response was lost and rejected the
\* retry as already settled.
C36_SettledEscrowsHaveResults ==
    pc \in {"idle", "done"} =>
        \A e \in exchange : Settled(e) => HasResult(e.id)

\* C37: no two receipts of the session ledger carry the same escrow id, also
\* when escrow is called again for the same task and the exchange returns
\* the escrow it already holds.
C37_ReceiptsHaveDistinctEscrowIds ==
    \A i, j \in 1..Len(session_receipts) :
        i # j => session_receipts[i].escrow_id # session_receipts[j].escrow_id

\* the amounts of the ledger receipts whose escrow id appears among the
\* results of the given status
AmountsSettledAs(status) ==
    LET ids == {session_results[j].escrow_id :
                    j \in {k \in 1..Len(session_results) :
                              session_results[k].status = status}}
        Among(r) == r.escrow_id \in ids
        rs == SelectSeq(session_receipts, Among) IN
    sum([i \in 1..Len(rs) |-> rs[i].amount])

\* C38: in every summary total_cancelled is the sum of the amounts of the
\* ledger receipts whose escrow id appears among the cancelled results; a
\* session in which nothing was cancelled reports total_cancelled = 0, also
\* while escrows are pending.
C38_TotalCancelledIsCancelledAmount ==
    summary # <<>> =>
        /\ summary[1].total_cancelled = AmountsSettledAs("cancelled")
        /\ summary[1].cancelled_count = 0 => summary[1].total_cancelled = 0

(***************************************************************************)
(* Properties of a summary taken while other threads append (specification *)
(* SpecReader).                                                            *)
(***************************************************************************)
\* C39: each SessionSummary describes one ledger state, also when other
\* threads append during the call: total_escrowed is the sum of the amounts
\* of the returned receipts, cancelled_count the number of cancelled entries
\* of the returned results, and total_released the value computed from the
\* returned receipts and results.
C39_SummaryDescribesOneLedgerState ==
    summary # <<>> =>
        LET s == summary[1]
            one == get_session_receipts(s.receipts, s.results) IN
        /\ s.total_escrowed = one.total_escrowed
        /\ s.cancelled_count = one.cancelled_count
        /\ s.total_released = one.total_released

\* the clients whose HTTP connection is open
OpenConnections == {i \in 1..Len(clients) : clients[i].http = "open"}

\* C40: at most one HTTP connection of the instances created through
\* initialize is open at any time: every connection but the active
\* instance's is closed, a replaced instance's connection having been closed
\* by the initialize that replaced it.
C40_OnlyTheActiveConnectionIsOpen ==
    /\ Cardinality(OpenConnections) <= 1
    /\ \A i \in OpenConnections : i = instance \/ lpc # "idle"

====
